---- MODULE Spec2Model ----
(***************************************************************************)
(* A model of vaqt, a C port of Go's time package: instants (Time),        *)
(* durations (Duration), the calendar composition/decomposition engine     *)
(* and the rounding arithmetic of src/src/time.c and the duration source.  *)
(*                                                                         *)
(* The code computes in int64_t / uint64_t.  TLC's integers are 32 bits    *)
(* wide, so a 64-bit machine word is modelled as its eight bytes, least    *)
(* significant first, and the C operators on words are defined on that     *)
(* representation: + - * wrap modulo 2^64, / and % truncate toward zero    *)
(* for signed operands.  Values of C type int (the calendar fields) are    *)
(* TLC integers.                                                           *)
(***************************************************************************)
EXTENDS Integers, Sequences, FiniteSets, TLC

\* fn   the library function called last ("none" before the first call)
\* cal  the calendar fields <<year, month, day, hour, min, sec, nsec,
\*      offset_sec>> passed to the last time_date call
\* t    the instant the caller holds: the result of the last call that
\*      returns a Time
\* u    the instant the caller held before that call
\* d    the Duration argument of the last call
\* mul  the multiple m passed to the last duration_truncate/round call
\* x    the Duration returned by the last call that returns one
\* n    the number of calls made
\* old  the instant the caller held before u
\* unix the sec argument of the last time_unix call (its nsec is d)
\* cal0 the calendar fields passed to the time_date call before the last
\* ymd  the <<years, months, days>> passed to the last time_add_date call
\* blob the 13 bytes last written by time_marshal_binary or read by
\*      time_unmarshal_binary
\* str  the string the caller holds, a sequence of characters: the one
\*      time_fmt_iso wrote last, or a literal
\* zone the <<offset_sec, size>> passed to the last time_fmt_iso call
VARIABLES fn, cal, t, u, d, mul, x, n, old, unix, blob, cal0, ymd, str, zone

vars ==
    <<fn, cal, t, u, d, mul, x, n, old, unix, blob, cal0, ymd, str, zone>>

-----------------------------------------------------------------------------
(* 64-bit words: int64_t and uint64_t share one representation.            *)

W64 == [1..8 -> 0..255]

\* The bytes of a natural number v < 2^31, as a word.
NatW(v) ==
    <<v % 256, (v \div 256) % 256, (v \div 65536) % 256, v \div 16777216,
      0, 0, 0, 0>>

\* Bitwise complement of a word.
WNot(a) == [i \in 1..8 |-> 255 - a[i]]

\* (int64_t)v for a value v of C type int: sign extension.
IntW(v) == IF v >= 0 THEN NatW(v) ELSE WNot(NatW(-(v + 1)))

WZero == NatW(0)
WOne == NatW(1)

\* a + b modulo 2^64.
WAdd(a, b) ==
    LET s1 == a[1] + b[1]
        s2 == a[2] + b[2] + (s1 \div 256)
        s3 == a[3] + b[3] + (s2 \div 256)
        s4 == a[4] + b[4] + (s3 \div 256)
        s5 == a[5] + b[5] + (s4 \div 256)
        s6 == a[6] + b[6] + (s5 \div 256)
        s7 == a[7] + b[7] + (s6 \div 256)
        s8 == a[8] + b[8] + (s7 \div 256)
    IN  <<s1 % 256, s2 % 256, s3 % 256, s4 % 256,
          s5 % 256, s6 % 256, s7 % 256, s8 % 256>>

\* -a modulo 2^64 (two's complement).
WNeg(a) == WAdd(WNot(a), WOne)

\* a - b modulo 2^64.
WSub(a, b) == WAdd(a, WNeg(b))

\* The sum of a[i] * b[k + 1 - i] for i in 1..j: column k of the product.
RECURSIVE WCol(_, _, _, _)
WCol(a, b, k, j) ==
    IF j = 0 THEN 0 ELSE a[j] * b[k + 1 - j] + WCol(a, b, k, j - 1)

\* a * c modulo 2^64 for a natural c < 2^23 (byte * c + carry < 2^31).
WMulSmall(a, c) ==
    LET s1 == a[1] * c
        s2 == a[2] * c + (s1 \div 256)
        s3 == a[3] * c + (s2 \div 256)
        s4 == a[4] * c + (s3 \div 256)
        s5 == a[5] * c + (s4 \div 256)
        s6 == a[6] * c + (s5 \div 256)
        s7 == a[7] * c + (s6 \div 256)
        s8 == a[8] * c + (s7 \div 256)
    IN  <<s1 % 256, s2 % 256, s3 % 256, s4 % 256,
          s5 % 256, s6 % 256, s7 % 256, s8 % 256>>

\* a * b modulo 2^64 by columns of byte products.
WMulLong(a, b) ==
    LET s1 == WCol(a, b, 1, 1)
        s2 == WCol(a, b, 2, 2) + (s1 \div 256)
        s3 == WCol(a, b, 3, 3) + (s2 \div 256)
        s4 == WCol(a, b, 4, 4) + (s3 \div 256)
        s5 == WCol(a, b, 5, 5) + (s4 \div 256)
        s6 == WCol(a, b, 6, 6) + (s5 \div 256)
        s7 == WCol(a, b, 7, 7) + (s6 \div 256)
        s8 == WCol(a, b, 8, 8) + (s7 \div 256)
    IN  <<s1 % 256, s2 % 256, s3 % 256, s4 % 256,
          s5 % 256, s6 % 256, s7 % 256, s8 % 256>>

\* a < b as uint64_t: decided at the most significant byte that differs.
RECURSIVE WLtFrom(_, _, _)
WLtFrom(a, b, i) ==
    IF i = 0 THEN FALSE
    ELSE IF a[i] # b[i] THEN a[i] < b[i]
    ELSE WLtFrom(a, b, i - 1)

ULt(a, b) == WLtFrom(a, b, 8)

\* The sign bit of a word read as int64_t.
WNegative(a) == a[8] >= 128

\* a < b as int64_t.
SLt(a, b) ==
    IF WNegative(a) # WNegative(b) THEN WNegative(a) ELSE ULt(a, b)

SLe(a, b) == ~SLt(b, a)

\* A word whose value is below 2^23 divides byte by byte in 32-bit
\* arithmetic (remainder * 256 + byte < 2^31).
WSmall(b) ==
    b[4] = 0 /\ b[5] = 0 /\ b[6] = 0 /\ b[7] = 0 /\ b[8] = 0 /\ b[3] < 128

WLow(b) == b[1] + 256 * b[2] + 65536 * b[3]

\* a * b modulo 2^64.
WMul(a, b) ==
    IF WSmall(b) THEN WMulSmall(a, WLow(b))
    ELSE IF WSmall(a) THEN WMulSmall(b, WLow(a))
    ELSE WMulLong(a, b)

\* Unsigned short division of a by c (0 < c < 2^23): <<quotient, remainder>>.
UDivModSmall(a, c) ==
    LET r8 == a[8]
        r7 == (r8 % c) * 256 + a[7]
        r6 == (r7 % c) * 256 + a[6]
        r5 == (r6 % c) * 256 + a[5]
        r4 == (r5 % c) * 256 + a[4]
        r3 == (r4 % c) * 256 + a[3]
        r2 == (r3 % c) * 256 + a[2]
        r1 == (r2 % c) * 256 + a[1]
    IN  << <<r1 \div c, r2 \div c, r3 \div c, r4 \div c,
             r5 \div c, r6 \div c, r7 \div c, r8 \div c>>,
           NatW(r1 % c) >>

\* Bit k (0 = least significant) of a word.
Pow2 == <<1, 2, 4, 8, 16, 32, 64, 128>>

WBit(a, k) == (a[(k \div 8) + 1] \div Pow2[(k % 8) + 1]) % 2

\* One step of binary long division, st = <<bits left, quotient, remainder>>:
\* shift the next bit of a into the remainder and subtract b when it fits.
\* A remainder whose top bit is set overflows the shift; then 2r + bit >= b
\* and the subtraction modulo 2^64 is exact.
UDivStep(a, b, st) ==
    LET Take(r2, ge) ==
            <<st[1] - 1,
              WAdd(WAdd(st[2], st[2]), NatW(IF ge THEN 1 ELSE 0)),
              IF ge THEN WSub(r2, b) ELSE r2>>
        Try(r2) == Take(r2, st[3][8] >= 128 \/ ~ULt(r2, b))
    IN  Try(WAdd(WAdd(st[3], st[3]), NatW(WBit(a, st[1] - 1))))

RECURSIVE UDivLoop(_, _, _)
UDivLoop(a, b, st) ==
    IF st[1] = 0 THEN st ELSE UDivLoop(a, b, UDivStep(a, b, st))

\* Unsigned long division, one bit at a time: <<quotient, remainder>>.
UDivModLong(a, b) == SubSeq(UDivLoop(a, b, <<64, WZero, WZero>>), 2, 3)

\* a / b and a % b as uint64_t (b # 0): <<quotient, remainder>>.  A divisor
\* below 2^23 divides byte by byte; a multiple of 1000 (the durations are
\* decimal: 10^9 ns to the second) divides in two stages,
\*   a = q1 * 1000 + r1,  q1 = q * (b / 1000) + r,  a = q * b + (r * 1000 + r1);
\* any other divisor takes the bit-by-bit division.
RECURSIVE UDivMod(_, _)
UDivMod(a, b) ==
    LET Join(ak, qr) == <<qr[1], WAdd(WMulSmall(qr[2], 1000), ak[2])>>
        Stage(ak, bq) == Join(ak, UDivMod(ak[1], bq))
        By(bk) == IF bk[2] = WZero THEN Stage(UDivModSmall(a, 1000), bk[1])
                  ELSE UDivModLong(a, b)
    IN  IF WSmall(b) THEN UDivModSmall(a, WLow(b))
        ELSE By(UDivModSmall(b, 1000))

UDiv(a, b) == UDivMod(a, b)[1]
UMod(a, b) == UDivMod(a, b)[2]

\* The magnitude of an int64_t as uint64_t.
WAbs(a) == IF WNegative(a) THEN WNeg(a) ELSE a

\* a / b as int64_t: C division truncates toward zero.
SDiv(a, b) ==
    LET q == UDiv(WAbs(a), WAbs(b))
    IN  IF WNegative(a) # WNegative(b) THEN WNeg(q) ELSE q

\* a % b as int64_t: the remainder has the sign of the dividend.
SMod(a, b) ==
    LET r == UMod(WAbs(a), WAbs(b))
    IN  IF WNegative(a) THEN WNeg(r) ELSE r

\* n >> 2 for a uint64_t.
WShr2(a) == UDivModSmall(a, 4)[1]

\* (int)a: the low 32 bits of a word, read as a signed int.
WInt(a) ==
    IF a[4] >= 128
    THEN -((255 - a[4]) * 16777216 + (255 - a[3]) * 65536
           + (255 - a[2]) * 256 + (255 - a[1])) - 1
    ELSE a[4] * 16777216 + a[3] * 65536 + a[2] * 256 + a[1]

\* A word written in decimal, nine digits to a group:
\* Dec(a, b, c) = a * 10^18 + b * 10^9 + c.
Dec(a, b, c) ==
    LET e9 == NatW(1000000000)
    IN  WAdd(WMul(WAdd(WMul(NatW(a), e9), NatW(b)), e9), NatW(c))

-----------------------------------------------------------------------------
(* Constants of time.c and of the duration source.                         *)

seconds_per_minute == 60
seconds_per_hour == 60 * seconds_per_minute
seconds_per_day == 24 * seconds_per_hour
seconds_per_week == 7 * seconds_per_day

days_per_400_years == 365 * 400 + 97
days_per_100_years == 365 * 100 + 24
days_per_4_years == 365 * 4 + 1

absolute_zero_year == WNeg(Dec(0, 292, 277022399))

absolute_to_internal == WNeg(Dec(9, 223371966, 579724800))
internal_to_absolute == WNeg(absolute_to_internal)

unix_to_internal ==
    WMul(IntW(1969 * 365 + 1969 \div 4 - 1969 \div 100 + 1969 \div 400),
         IntW(seconds_per_day))
internal_to_unix == WNeg(unix_to_internal)

\* days_before[m + 1] is the C array's days_before[m].
days_before ==
    <<0,
      31,
      31 + 28,
      31 + 28 + 31,
      31 + 28 + 31 + 30,
      31 + 28 + 31 + 30 + 31,
      31 + 28 + 31 + 30 + 31 + 30,
      31 + 28 + 31 + 30 + 31 + 30 + 31,
      31 + 28 + 31 + 30 + 31 + 30 + 31 + 31,
      31 + 28 + 31 + 30 + 31 + 30 + 31 + 31 + 30,
      31 + 28 + 31 + 30 + 31 + 30 + 31 + 31 + 30 + 31,
      31 + 28 + 31 + 30 + 31 + 30 + 31 + 31 + 30 + 31 + 30,
      31 + 28 + 31 + 30 + 31 + 30 + 31 + 31 + 30 + 31 + 30 + 31>>

TIME_JANUARY == 1
TIME_FEBRUARY == 2
TIME_MARCH == 3
TIME_DECEMBER == 12

TIME_SUNDAY == 0
TIME_MONDAY == 1
TIME_THURSDAY == 4

TIME_NANO == NatW(1)
TIME_MICRO == WMul(NatW(1000), TIME_NANO)
TIME_MILLI == WMul(NatW(1000), TIME_MICRO)
TIME_SECOND == WMul(NatW(1000), TIME_MILLI)
TIME_MINUTE == WMul(NatW(60), TIME_SECOND)
TIME_HOUR == WMul(NatW(60), TIME_MINUTE)

DURATION_MIN == <<0, 0, 0, 0, 0, 0, 0, 128>>
DURATION_MAX == <<255, 255, 255, 255, 255, 255, 255, 127>>

\* The int literal 1000000000 and the double literal 1e9 of the code.
Billion == 1000000000

-----------------------------------------------------------------------------
(* The calendar engine of time.c.                                          *)

\* a / b and a % b for C ints, b > 0: the quotient truncates toward zero.
CDiv(a, b) == IF a >= 0 THEN a \div b ELSE -((-a) \div b)
CRem(a, b) == IF a >= 0 THEN a % b ELSE -((-a) % b)

\* norm with the borrow of a negative lo left out of hi.
norm_keeps_hi(hi, lo, base) ==
    LET n1  == CDiv(-lo - 1, base) + 1
        lo1 == IF lo < 0 THEN lo + n1 * base ELSE lo
        n2  == CDiv(lo1, base)
    IN  IF lo1 >= base THEN <<hi + n2, lo1 - n2 * base>> ELSE <<hi, lo1>>

\* norm: <<nhi, nlo>> with hi * base + lo = nhi * base + nlo, 0 <= nlo < base.
norm(hi, lo, base) ==
    LET n1  == CDiv(-lo - 1, base) + 1
        hi1 == IF lo < 0 THEN hi - n1 ELSE hi
        lo1 == IF lo < 0 THEN lo + n1 * base ELSE lo
        n2  == CDiv(lo1, base)
    IN  IF lo1 >= base THEN <<hi1 + n2, lo1 - n2 * base>> ELSE <<hi1, lo1>>

\* One cycle length of days_since_epoch, st = <<y, d>>:
\*   n = y / years;  y -= years * n;  d += days * n.
days_of_cycles(st, years, days) ==
    LET Take(nn) == <<WSub(st[1], WMulSmall(nn, years)),
                      WAdd(st[2], WMulSmall(nn, days))>>
    IN  Take(UDivModSmall(st[1], years)[1])

\* days_since_epoch with a leap year every fourth year and no exception in
\* the years divisible by 100.
days_since_epoch_every_fourth(year) ==
    LET Rest(st) == WAdd(st[2], WMulSmall(st[1], 365))
    IN  Rest(days_of_cycles(
                 <<WSub(IntW(year), absolute_zero_year), WZero>>,
                 4, days_per_4_years))

\* days_since_epoch: days from the absolute epoch to the start of the year,
\* a uint64_t.
days_since_epoch(year) ==
    LET Rest(st) == WAdd(st[2], WMulSmall(st[1], 365))
    IN  Rest(days_of_cycles(
                 days_of_cycles(
                     days_of_cycles(
                         <<WSub(IntW(year), absolute_zero_year), WZero>>,
                         400, days_per_400_years),
                     100, days_per_100_years),
                 4, days_per_4_years))

is_leap(year) ==
    CRem(year, 4) = 0 /\ (CRem(year, 100) # 0 \/ CRem(year, 400) = 0)

unix_sec(tm) == WAdd(tm.sec, internal_to_unix)

\* unix_time without the offset of the Unix epoch.
unix_time_no_offset(sec, nsec) == [sec |-> sec, nsec |-> nsec]

\* unix_time(sec, nsec): nsec is the int32_t parameter.
unix_time(sec, nsec) == [sec |-> WAdd(sec, unix_to_internal), nsec |-> nsec]

abs_time(tm) == WAdd(tm.sec, internal_to_absolute)

\* abs_weekday taking the first day of the absolute year for a Sunday.
abs_weekday_from_sunday(abs) ==
    WInt(UDivModSmall(UDivModSmall(abs, seconds_per_week)[2],
                      seconds_per_day)[1])

abs_weekday(abs) ==
    WInt(UDivModSmall(
             UDivModSmall(WAdd(abs, IntW(TIME_MONDAY * seconds_per_day)),
                          seconds_per_week)[2],
             seconds_per_day)[1])

\* One cycle length of abs_date, st = <<y, d>>, for nn whole cycles:
\*   y += years * n;  d -= days * n.
cut_cycles(st, years, days, nn) ==
    <<WAdd(st[1], WMulSmall(nn, years)), WSub(st[2], WMulSmall(nn, days))>>

\* n = d / days.
whole_cycles(st, days) == UDivModSmall(st[2], days)[1]

\* less_quarter without the correction: on the last day of a cycle that
\* ends with a leap year n stays 4.
less_quarter_uncorrected(nn) == nn

\* n -= n >> 2.
less_quarter(nn) == WSub(nn, WShr2(nn))

\* abs_date: <<year, yday>>, yday counted from 0.
abs_date(abs) ==
    LET C400(st) == cut_cycles(st, 400, days_per_400_years,
                               whole_cycles(st, days_per_400_years))
        C100(st) == cut_cycles(st, 100, days_per_100_years,
                               less_quarter(whole_cycles(st, days_per_100_years)))
        C4(st)   == cut_cycles(st, 4, days_per_4_years,
                               whole_cycles(st, days_per_4_years))
        C1(st)   == cut_cycles(st, 1, 365, less_quarter(whole_cycles(st, 365)))
        Out(st)  == <<WInt(WAdd(st[1], absolute_zero_year)), WInt(st[2])>>
    IN  Out(C1(C4(C100(C400(
            <<WZero, UDivModSmall(abs, seconds_per_day)[1]>>)))))

\* abs_date_full: <<year, month, day, yday>>.  The two tests on *day in a
\* leap year are consecutive ifs in the code: the second one sees the day
\* the first one has already decremented.
abs_date_full(abs) ==
    LET Full(yd) ==
            LET year  == yd[1]
                yday  == yd[2]
                leap  == is_leap(year)
                day1  == IF leap /\ yday > 31 + 29 - 1 THEN yday - 1 ELSE yday
                est   == CDiv(day1, 31)
                end   == days_before[est + 1 + 1]
                month == IF day1 >= end THEN est + 1 ELSE est
                begin == IF day1 >= end THEN end ELSE days_before[est + 1]
            IN  IF leap /\ day1 = 31 + 29 - 1
                THEN <<year, TIME_FEBRUARY, 29, yday>>
                ELSE <<year, month + 1, day1 - begin + 1, yday>>
    IN  Full(abs_date(abs))

\* abs_clock: <<hour, min, sec>>.
abs_clock(abs) ==
    LET Clock(sec0) ==
            LET hour == CDiv(sec0, seconds_per_hour)
                sec1 == sec0 - hour * seconds_per_hour
                min  == CDiv(sec1, seconds_per_minute)
            IN  <<hour, min, sec1 - min * seconds_per_minute>>
    IN  Clock(WInt(UDivModSmall(abs, seconds_per_day)[2]))

\* time_date adding the offset where the code subtracts it.
time_date_offset_added(year, month, day, hour, min, sec, nsec, offset_sec) ==
    LET ym   == norm(year, month - 1, 12)
        yr   == ym[1]
        mon  == ym[2] + 1
        sn   == norm(sec, nsec, Billion)
        ms   == norm(min, sn[1], 60)
        hm   == norm(hour, ms[1], 60)
        dh   == norm(day, hm[1], 24)
        da0  == WAdd(days_since_epoch(yr), IntW(days_before[mon - 1 + 1]))
        da1  == WAdd(da0, IF is_leap(yr) /\ mon >= TIME_MARCH
                          THEN WOne ELSE WZero)
        da2  == WAdd(da1, IntW(dh[1] - 1))
        abs0 == WMulSmall(da2, seconds_per_day)
        abs1 == WAdd(abs0, IntW(dh[2] * seconds_per_hour
                                + hm[2] * seconds_per_minute + ms[2]))
        abs2 == WAdd(abs1, IntW(offset_sec))
    IN  [sec |-> WAdd(abs2, absolute_to_internal), nsec |-> sn[2]]

\* time_date: the fields are C ints; after norm the time of day is below
\* one day, so its int64_t sum is taken in int arithmetic.
time_date(year, month, day, hour, min, sec, nsec, offset_sec) ==
    LET ym   == norm(year, month - 1, 12)
        yr   == ym[1]
        mon  == ym[2] + 1
        sn   == norm(sec, nsec, Billion)
        ms   == norm(min, sn[1], 60)
        hm   == norm(hour, ms[1], 60)
        dh   == norm(day, hm[1], 24)
        da0  == WAdd(days_since_epoch(yr), IntW(days_before[mon - 1 + 1]))
        da1  == WAdd(da0, IF is_leap(yr) /\ mon >= TIME_MARCH
                          THEN WOne ELSE WZero)
        da2  == WAdd(da1, IntW(dh[1] - 1))
        abs0 == WMulSmall(da2, seconds_per_day)
        abs1 == WAdd(abs0, IntW(dh[2] * seconds_per_hour
                                + hm[2] * seconds_per_minute + ms[2]))
        abs2 == WSub(abs1, IntW(offset_sec))
    IN  [sec |-> WAdd(abs2, absolute_to_internal), nsec |-> sn[2]]

\* time_get_date: <<year, month, day>>.
time_get_date(tm) == SubSeq(abs_date_full(abs_time(tm)), 1, 3)

time_get_year(tm) == abs_date(abs_time(tm))[1]
time_get_month(tm) == abs_date_full(abs_time(tm))[2]
time_get_day(tm) == abs_date_full(abs_time(tm))[3]

\* time_get_clock: <<hour, min, sec>>.
time_get_clock(tm) == abs_clock(abs_time(tm))

time_get_hour(tm) ==
    CDiv(WInt(UDivModSmall(abs_time(tm), seconds_per_day)[2]),
         seconds_per_hour)
time_get_minute(tm) ==
    CDiv(WInt(UDivModSmall(abs_time(tm), seconds_per_hour)[2]),
         seconds_per_minute)
time_get_second(tm) ==
    WInt(UDivModSmall(abs_time(tm), seconds_per_minute)[2])
time_get_nano(tm) == tm.nsec

time_get_weekday(tm) == abs_weekday(abs_time(tm))
\* time_get_yearday counting from 0.
time_get_yearday_from_zero(tm) == abs_date(abs_time(tm))[2]

time_get_yearday(tm) == abs_date(abs_time(tm))[2] + 1

\* time_get_isoweek without the special case of Sunday, which then looks
\* four days ahead.
time_get_isoweek_sunday_ahead(tm) ==
    LET Week(yd) == <<yd[1], CDiv(yd[2], 7) + 1>>
        Thursday(abs, dd) ==
            abs_date(WAdd(abs, IntW(dd * seconds_per_day)))
        Of(abs) == Week(Thursday(abs, TIME_THURSDAY - abs_weekday(abs)))
    IN  Of(abs_time(tm))

\* time_get_isoweek: <<year, week>>.
time_get_isoweek(tm) ==
    LET Week(yd) == <<yd[1], CDiv(yd[2], 7) + 1>>
        Thursday(abs, dd) ==
            abs_date(WAdd(abs, IntW((IF dd = 4 THEN -3 ELSE dd)
                                    * seconds_per_day)))
        Of(abs) == Week(Thursday(abs, TIME_THURSDAY - abs_weekday(abs)))
    IN  Of(abs_time(tm))

-----------------------------------------------------------------------------
(* Unix time.                                                              *)

\* time_unix without the borrow that makes a negative remainder positive.
time_unix_no_borrow(sec, nsec) ==
    LET e9 == NatW(Billion)
        Carry(k) == unix_time(WAdd(sec, k), WInt(WSub(nsec, WMul(k, e9))))
    IN  IF SLt(nsec, WZero) \/ SLe(e9, nsec)
        THEN Carry(SDiv(nsec, e9))
        ELSE unix_time(sec, WInt(nsec))

\* time_unix(sec, nsec): both int64_t.
time_unix(sec, nsec) ==
    LET e9 == NatW(Billion)
        Borrow(s1, ns1) ==
            IF SLt(ns1, WZero)
            THEN unix_time(WSub(s1, WOne), WInt(WAdd(ns1, e9)))
            ELSE unix_time(s1, WInt(ns1))
        Carry(k) == Borrow(WAdd(sec, k), WSub(nsec, WMul(k, e9)))
    IN  IF SLt(nsec, WZero) \/ SLe(e9, nsec)
        THEN Carry(SDiv(nsec, e9))
        ELSE unix_time(sec, WInt(nsec))

time_unix_milli(msec) ==
    time_unix(SDiv(msec, NatW(1000)),
              WMul(SMod(msec, NatW(1000)), NatW(1000000)))

time_unix_micro(usec) ==
    time_unix(SDiv(usec, NatW(1000000)),
              WMul(SMod(usec, NatW(1000000)), NatW(1000)))

time_unix_nano(nsec) == time_unix(WZero, nsec)

time_to_unix(tm) == unix_sec(tm)

\* time_to_unix_milli forgetting the milliseconds within the second.
time_to_unix_milli_whole_seconds(tm) == WMul(unix_sec(tm), NatW(1000))

time_to_unix_milli(tm) ==
    WAdd(WMul(unix_sec(tm), NatW(1000)), IntW(CDiv(tm.nsec, 1000000)))

time_to_unix_micro(tm) ==
    WAdd(WMul(unix_sec(tm), NatW(1000000)), IntW(CDiv(tm.nsec, 1000)))

time_to_unix_nano(tm) ==
    WAdd(WMul(unix_sec(tm), NatW(Billion)), IntW(tm.nsec))

-----------------------------------------------------------------------------
(* Comparison.                                                             *)

time_after(a, b) ==
    SLt(b.sec, a.sec) \/ (a.sec = b.sec /\ a.nsec > b.nsec)

\* time_before looking at the seconds only.
time_before_seconds_only(a, b) == SLt(a.sec, b.sec)

time_before(a, b) ==
    SLt(a.sec, b.sec) \/ (a.sec = b.sec /\ a.nsec < b.nsec)

time_compare(a, b) ==
    IF time_before(a, b) THEN -1
    ELSE IF time_after(a, b) THEN 1
    ELSE 0

\* time_equal on the seconds alone.
time_equal_seconds_only(a, b) == a.sec = b.sec

time_equal(a, b) == a.sec = b.sec /\ a.nsec = b.nsec

time_is_zero(a) == a.sec = WZero /\ a.nsec = 0

-----------------------------------------------------------------------------
(* Arithmetic.  Signed overflow wraps modulo 2^64, as the two's-complement *)
(* add and multiply instructions of the build do.                          *)

\* time_add with the carry between nsec and sec left out.
time_add_no_carry(tm, dur) ==
    [sec  |-> WAdd(tm.sec, SDiv(dur, TIME_SECOND)),
     nsec |-> tm.nsec + WInt(SMod(dur, NatW(Billion)))]

\* time_add(t, d): nsec is an int64_t between -10^9 and 2 * 10^9.
time_add(tm, dur) ==
    LET Carry(dsec, nsec) ==
            IF nsec >= Billion
            THEN [sec  |-> WAdd(tm.sec, WAdd(dsec, WOne)),
                  nsec |-> nsec - Billion]
            ELSE IF nsec < 0
            THEN [sec  |-> WAdd(tm.sec, WSub(dsec, WOne)),
                  nsec |-> nsec + Billion]
            ELSE [sec |-> WAdd(tm.sec, dsec), nsec |-> nsec]
    IN  Carry(SDiv(dur, TIME_SECOND),
              tm.nsec + WInt(SMod(dur, NatW(Billion))))

\* time_sub with the nanosecond fields left out of the difference.
time_sub_whole_seconds(a, b) ==
    LET Checked(dur) ==
            IF time_equal(time_add(b, dur), a) THEN dur
            ELSE IF time_before(a, b) THEN DURATION_MIN
            ELSE DURATION_MAX
    IN  Checked(WMul(WSub(a.sec, b.sec), TIME_SECOND))

time_sub(a, b) ==
    LET Checked(dur) ==
            IF time_equal(time_add(b, dur), a) THEN dur
            ELSE IF time_before(a, b) THEN DURATION_MIN
            ELSE DURATION_MAX
    IN  Checked(WAdd(WMul(WSub(a.sec, b.sec), TIME_SECOND),
                     IntW(a.nsec - b.nsec)))

time_add_date(tm, years, months, days) ==
    LET Shift(dt, ck) ==
            time_date(dt[1] + years, dt[2] + months, dt[3] + days,
                      ck[1], ck[2], ck[3], tm.nsec, 0)
    IN  Shift(time_get_date(tm), time_get_clock(tm))

-----------------------------------------------------------------------------
(* Rounding of instants.                                                   *)

\* tless_than_half with <= for <: exactly half counts as less.
tless_or_half(a, b) == ~ULt(b, WAdd(a, a))

\* tless_than_half: x + x < y in uint64_t.
tless_than_half(a, b) == ULt(WAdd(a, a), b)

\* time_div without the re-bias of the remainder for instants before the
\* zero time.
time_div_no_flip(tm, dur) ==
    LET neg  == SLt(tm.sec, WZero)
        nsa  == IF neg THEN -tm.nsec ELSE tm.nsec
        bor  == neg /\ nsa < 0
        nsec == IF bor THEN nsa + Billion ELSE nsa
        sa   == IF neg THEN WNeg(tm.sec) ELSE tm.sec
        sec  == IF bor THEN WSub(sa, WOne) ELSE sa
        Rem(d1) == WAdd(WMul(SMod(sec, d1), TIME_SECOND), IntW(nsec))
    IN  IF SMod(dur, TIME_SECOND) # WZero THEN WZero
        ELSE Rem(SDiv(dur, TIME_SECOND))

\* time_div: the remainder of tm divided by dur, for dur a multiple of 1 s;
\* 0 for any other dur.
time_div(tm, dur) ==
    LET neg  == SLt(tm.sec, WZero)
        nsa  == IF neg THEN -tm.nsec ELSE tm.nsec
        bor  == neg /\ nsa < 0
        nsec == IF bor THEN nsa + Billion ELSE nsa
        sa   == IF neg THEN WNeg(tm.sec) ELSE tm.sec
        sec  == IF bor THEN WSub(sa, WOne) ELSE sa
        Flip(r) == IF neg /\ r # WZero THEN WSub(dur, r) ELSE r
        Rem(d1) == Flip(WAdd(WMul(SMod(sec, d1), TIME_SECOND), IntW(nsec)))
    IN  IF SMod(dur, TIME_SECOND) # WZero THEN WZero
        ELSE Rem(SDiv(dur, TIME_SECOND))

\* time_truncate that cuts the nanoseconds off for a unit that is not a
\* whole number of seconds.
time_truncate_cuts_nanos(tm, dur) ==
    IF SLe(dur, WZero) THEN tm
    ELSE IF SMod(dur, TIME_SECOND) # WZero THEN [tm EXCEPT !.nsec = 0]
    ELSE time_add(tm, WNeg(time_div(tm, dur)))

\* time_truncate that returns early for d = 0 only.
time_truncate_zero_only(tm, dur) ==
    IF dur = WZero THEN tm
    ELSE time_add(tm, WNeg(time_div(tm, dur)))

time_truncate(tm, dur) ==
    IF SLe(dur, WZero) THEN tm
    ELSE time_add(tm, WNeg(time_div(tm, dur)))

\* time_round that always advances to the next multiple.
time_round_up(tm, dur) ==
    IF SLe(dur, WZero) THEN tm
    ELSE time_add(tm, WSub(dur, time_div(tm, dur)))

time_round(tm, dur) ==
    LET Near(r) == IF tless_than_half(r, dur) THEN time_add(tm, WNeg(r))
                   ELSE time_add(tm, WSub(dur, r))
    IN  IF SLe(dur, WZero) THEN tm ELSE Near(time_div(tm, dur))

-----------------------------------------------------------------------------
(* Marshaling.  A blob is the sequence buf[0] .. buf[12] of the code.      *)

\* time_unmarshal_binary without the test of the version byte.
time_unmarshal_binary_any_version(buf) ==
    [sec  |-> [k \in 1..8 |-> buf[10 - k]],
     nsec |-> WInt(<<buf[12 + 1], buf[11 + 1], buf[10 + 1], buf[9 + 1],
                     0, 0, 0, 0>>)]

\* time_unmarshal_binary: the seconds are stored most significant byte first.
time_unmarshal_binary(buf) ==
    IF buf[0 + 1] # 1 THEN [sec |-> WZero, nsec |-> 0]
    ELSE [sec  |-> [k \in 1..8 |-> buf[10 - k]],
          nsec |-> WInt(<<buf[12 + 1], buf[11 + 1], buf[10 + 1], buf[9 + 1],
                          0, 0, 0, 0>>)]

\* time_marshal_binary writing the seconds least significant byte first.
time_marshal_binary_low_first(tm) ==
    <<1, tm.sec[1], tm.sec[2], tm.sec[3], tm.sec[4],
         tm.sec[5], tm.sec[6], tm.sec[7], tm.sec[8],
         IntW(tm.nsec)[4], IntW(tm.nsec)[3], IntW(tm.nsec)[2],
         IntW(tm.nsec)[1]>>

time_marshal_binary(tm) ==
    <<1, tm.sec[8], tm.sec[7], tm.sec[6], tm.sec[5],
         tm.sec[4], tm.sec[3], tm.sec[2], tm.sec[1],
         IntW(tm.nsec)[4], IntW(tm.nsec)[3], IntW(tm.nsec)[2],
         IntW(tm.nsec)[1]>>

-----------------------------------------------------------------------------
(* Durations.                                                              *)

\* dless_than_half with <= for <: exactly half counts as less.
dless_or_half(a, b) == ~ULt(b, WAdd(a, a))

\* dless_than_half: x + x < y in uint64_t.
dless_than_half(a, b) == ULt(WAdd(a, a), b)

\* duration_truncate rounding down instead of toward zero.
duration_truncate_floor(dur, m) ==
    LET Floor(r) == IF SLt(r, WZero) THEN WSub(WSub(dur, r), m)
                    ELSE WSub(dur, r)
    IN  IF SLe(m, WZero) THEN dur ELSE Floor(SMod(dur, m))

duration_truncate(dur, m) ==
    IF SLe(m, WZero) THEN dur ELSE WSub(dur, SMod(dur, m))

\* duration_round returning the sum it computed even when that sum has
\* wrapped.
duration_round_wraps(dur, m) ==
    LET Down(r)  == IF dless_than_half(r, m) THEN WAdd(dur, r)
                    ELSE WAdd(WSub(dur, m), r)
        Up(r)    == IF dless_than_half(r, m) THEN WSub(dur, r)
                    ELSE WSub(WAdd(dur, m), r)
        Round(r) == IF SLt(dur, WZero) THEN Down(WNeg(r)) ELSE Up(r)
    IN  IF SLe(m, WZero) THEN dur ELSE Round(SMod(dur, m))

duration_round(dur, m) ==
    LET Low(d1)  == IF SLt(d1, dur) THEN d1 ELSE DURATION_MIN
        High(d1) == IF SLt(dur, d1) THEN d1 ELSE DURATION_MAX
        Down(r)  == IF dless_than_half(r, m) THEN WAdd(dur, r)
                    ELSE Low(WAdd(WSub(dur, m), r))
        Up(r)    == IF dless_than_half(r, m) THEN WSub(dur, r)
                    ELSE High(WSub(WAdd(dur, m), r))
        Round(r) == IF SLt(dur, WZero) THEN Down(WNeg(r)) ELSE Up(r)
    IN  IF SLe(m, WZero) THEN dur ELSE Round(SMod(dur, m))

\* duration_abs without the special case of DURATION_MIN.
duration_abs_negates(dur) == IF SLt(dur, WZero) THEN WNeg(dur) ELSE dur

duration_abs(dur) ==
    IF dur = DURATION_MIN THEN DURATION_MAX
    ELSE IF SLt(dur, WZero) THEN WNeg(dur)
    ELSE dur

-----------------------------------------------------------------------------
(* Time formatting and parsing.  A string is the sequence of its           *)
(* characters, each a string of length 1, without the terminating NUL.     *)

DigitChars == <<"0", "1", "2", "3", "4", "5", "6", "7", "8", "9">>

\* isdigit
IsDigit(c) == c \in {DigitChars[k] : k \in 1..10}

DigitValue(c) == (CHOOSE k \in 1..10 : DigitChars[k] = c) - 1

\* isspace, for the characters strings hold here.
IsSpace(c) == c = " "

\* The decimal digits of k >= 0.
RECURSIVE DecimalOf(_)
DecimalOf(k) ==
    IF k < 10 THEN <<DigitChars[k + 1]>>
    ELSE Append(DecimalOf(k \div 10), DigitChars[(k % 10) + 1])

Zeros(k) == IF k <= 0 THEN <<>> ELSE [i \in 1..k |-> "0"]

\* snprintf's %0wd: zeros fill the width w after the sign.
FmtZero(val, w) ==
    LET Fill(ds) ==
            IF val < 0 THEN <<"-">> \o Zeros(w - 1 - Len(ds)) \o ds
            ELSE Zeros(w - Len(ds)) \o ds
    IN  Fill(DecimalOf(IF val < 0 THEN -val ELSE val))

\* snprintf's %+0wd: the sign is always written.
FmtSigned(val, w) ==
    LET Fill(ds) ==
            <<IF val < 0 THEN "-" ELSE "+">> \o Zeros(w - 1 - Len(ds)) \o ds
    IN  Fill(DecimalOf(IF val < 0 THEN -val ELSE val))

\* "%04d-%02d-%02dT%02d:%02d:%02d"
FmtDateClock(dt, ck) ==
    FmtZero(dt[1], 4) \o <<"-">> \o FmtZero(dt[2], 2) \o <<"-">>
    \o FmtZero(dt[3], 2) \o <<"T">> \o FmtZero(ck[1], 2) \o <<":">>
    \o FmtZero(ck[2], 2) \o <<":">> \o FmtZero(ck[3], 2)

\* ".%09d", written when the nanoseconds are not 0.
FmtNanos(nsec) == IF nsec = 0 THEN <<>> ELSE <<".">> \o FmtZero(nsec, 9)

\* snprintf(buf, size, ...): the characters written to buf, at most
\* size - 1 of them, and the length of the whole text.
Snprintf(size, full) ==
    [buf |-> IF size = 0 THEN <<>>
             ELSE IF Len(full) > size - 1 THEN SubSeq(full, 1, size - 1)
             ELSE full,
     len |-> Len(full)]

\* time_fmt_iso: [buf, len].  ofhour carries the sign of the offset.
time_fmt_iso(tm, offset_sec, size) ==
    LET ofhour == CDiv(offset_sec, 3600)
        ofmin0 == CDiv(CRem(offset_sec, 3600), 60)
        ofmin  == IF ofmin0 < 0 THEN -ofmin0 ELSE ofmin0
        Suffix ==
            IF offset_sec = 0 THEN <<"Z">>
            ELSE FmtSigned(ofhour, 3) \o <<":">> \o FmtZero(ofmin, 2)
        Text(loc) ==
            FmtDateClock(time_get_date(loc), time_get_clock(loc))
            \o FmtNanos(loc.nsec) \o Suffix
        Written(loc_t) ==
            CHOOSE v \in {Snprintf(size, Text(loc)) : loc \in {loc_t}} : TRUE
    IN  Written(IF offset_sec = 0 THEN tm
                ELSE time_add(tm, WMul(IntW(offset_sec), TIME_SECOND)))

\* sscanf skips white space before %d and %s.
RECURSIVE SkipSpace(_, _)
SkipSpace(s, i) ==
    IF i <= Len(s) /\ IsSpace(s[i]) THEN SkipSpace(s, i + 1) ELSE i

\* The index after the digits that start at i.
RECURSIVE DigitsEnd(_, _)
DigitsEnd(s, i) ==
    IF i <= Len(s) /\ IsDigit(s[i]) THEN DigitsEnd(s, i + 1) ELSE i

\* The number written by the digits s[i] .. s[j].
RECURSIVE NumberOf(_, _, _)
NumberOf(s, i, j) ==
    IF j < i THEN 0
    ELSE 10 * NumberOf(s, i, j - 1) + DigitValue(s[j])

\* The index after at most w characters that are not white space, from i.
RECURSIVE WordEnd(_, _, _)
WordEnd(s, i, w) ==
    IF w > 0 /\ i <= Len(s) /\ ~IsSpace(s[i]) THEN WordEnd(s, i + 1, w - 1)
    ELSE i

\* sscanf's %d at index i: white space, an optional sign, digits (of a
\* number that an int holds).
ScanInt(s, i) ==
    LET Signed(p) == p <= Len(s) /\ s[p] \in {"+", "-"}
        From(p, q) ==
            IF DigitsEnd(s, q) = q THEN [ok |-> FALSE]
            ELSE [ok   |-> TRUE,
                  val  |-> IF Signed(p) /\ s[p] = "-"
                           THEN -NumberOf(s, q, DigitsEnd(s, q) - 1)
                           ELSE NumberOf(s, q, DigitsEnd(s, q) - 1),
                  next |-> DigitsEnd(s, q)]
        After(p) == From(p, IF Signed(p) THEN p + 1 ELSE p)
    IN  After(SkipSpace(s, i))

\* sscanf's %ws at index i: white space, then at most w characters.
ScanWord(s, i, w) ==
    LET From(p) ==
            IF WordEnd(s, p, w) = p THEN [ok |-> FALSE]
            ELSE [ok   |-> TRUE,
                  val  |-> SubSeq(s, p, WordEnd(s, p, w) - 1),
                  next |-> WordEnd(s, p, w)]
    IN  From(SkipSpace(s, i))

\* sscanf(s, layout, ...): the values assigned, in order, up to the first
\* directive that fails; their number is what sscanf returns when it is at
\* least 1.  A layout is a sequence of "%d", "%6s", "%*c" and characters
\* that the input has to hold as they are.
RECURSIVE Sscanf(_, _, _, _, _)
Sscanf(s, layout, k, i, out) ==
    LET Assign(r) ==
            IF r.ok THEN Sscanf(s, layout, k + 1, r.next, Append(out, r.val))
            ELSE out
        Step(pos) ==
            IF k > Len(layout) THEN out
            ELSE IF layout[k] = "%d"
            THEN CHOOSE v \in {Assign(r) : r \in {ScanInt(s, pos)}} : TRUE
            ELSE IF layout[k] = "%6s"
            THEN CHOOSE v \in {Assign(r) : r \in {ScanWord(s, pos, 6)}} : TRUE
            ELSE IF layout[k] = "%*c"
            THEN (IF pos <= Len(s) THEN Sscanf(s, layout, k + 1, pos + 1, out)
                  ELSE out)
            ELSE IF pos <= Len(s) /\ s[pos] = layout[k]
            THEN Sscanf(s, layout, k + 1, pos + 1, out)
            ELSE out
    IN  CHOOSE v \in {Step(pos) : pos \in {i}} : TRUE

\* "%d-%d-%d"
LayoutDate == <<"%d", "-", "%d", "-", "%d">>

\* "%d:%d:%d"
LayoutClock == <<"%d", ":", "%d", ":", "%d">>

\* tz[k] of char tz[7] = "" after sscanf has stored the word w in it.
TzAt(w, k) == IF k < Len(w) THEN w[k + 1] ELSE "NUL"

\* parse_timezone_offset: [ok, offset_sec] for the string tz.
parse_timezone_offset(tz) ==
    LET Hours == DigitValue(TzAt(tz, 1)) * 10 + DigitValue(TzAt(tz, 2))
        Mins  == DigitValue(TzAt(tz, 4)) * 10 + DigitValue(TzAt(tz, 5))
        sign  == IF TzAt(tz, 0) = "-" THEN -1 ELSE 1
    IN  IF TzAt(tz, 0) = "NUL" THEN [ok |-> TRUE, offset_sec |-> 0]
        ELSE IF TzAt(tz, 0) # "+" /\ TzAt(tz, 0) # "-" THEN [ok |-> FALSE]
        ELSE IF ~IsDigit(TzAt(tz, 1)) \/ ~IsDigit(TzAt(tz, 2))
        THEN [ok |-> FALSE]
        ELSE IF TzAt(tz, 3) # ":" THEN [ok |-> FALSE]
        ELSE IF ~IsDigit(TzAt(tz, 4)) \/ ~IsDigit(TzAt(tz, 5))
        THEN [ok |-> FALSE]
        ELSE [ok |-> TRUE,
              offset_sec |-> Hours * 3600 * sign + Mins * 60 * sign]

\* time_parse: the layout is chosen by the length of value; the fields a
\* layout does not hold keep year = 1, month = 1, day = 1, 0 and tz = "".
time_parse(value) ==
    LET len == Len(value)
        zero == [sec |-> WZero, nsec |-> 0]
        layout ==
            IF len = 35
            THEN LayoutDate \o <<"T">> \o LayoutClock \o <<".", "%d", "%6s">>
            ELSE IF len = 30
            THEN LayoutDate \o <<"T">> \o LayoutClock \o <<".", "%d", "Z">>
            ELSE IF len = 25
            THEN LayoutDate \o <<"T">> \o LayoutClock \o <<"%6s">>
            ELSE IF len = 19 \/ len = 20
            THEN LayoutDate \o <<"%*c">> \o LayoutClock
            ELSE IF len = 10 THEN LayoutDate
            ELSE IF len = 8 THEN LayoutClock
            ELSE <<>>
        cnt ==
            IF len = 35 THEN 8
            ELSE IF len = 30 \/ len = 25 THEN 7
            ELSE IF len = 19 \/ len = 20 THEN 6
            ELSE IF len = 10 \/ len = 8 THEN 3
            ELSE 0
        \* <<year, month, day, hour, min, sec, nsec, tz>>
        Fields(out) ==
            IF len = 35 THEN out
            ELSE IF len = 30 THEN out \o <<<<>>>>
            ELSE IF len = 25 THEN SubSeq(out, 1, 6) \o <<0, out[7]>>
            ELSE IF len = 19 \/ len = 20 THEN out \o <<0, <<>>>>
            ELSE IF len = 10 THEN out \o <<0, 0, 0, 0, <<>>>>
            ELSE IF len = 8 THEN <<1, 1, 1>> \o out \o <<0, <<>>>>
            ELSE <<1, 1, 1, 0, 0, 0, 0, <<>>>>
        Composed(f, z) ==
            IF ~z.ok THEN zero
            ELSE time_date(f[1], f[2], f[3], f[4], f[5], f[6], f[7],
                           z.offset_sec)
        Zoned(f) ==
            CHOOSE v \in {Composed(f, z) : z \in {parse_timezone_offset(f[8])}} :
                TRUE
        Scanned(out) ==
            IF Len(out) # cnt THEN zero
            ELSE CHOOSE v \in {Zoned(f) : f \in {Fields(out)}} : TRUE
    IN  IF len < 8 \/ len > 35 THEN zero
        ELSE CHOOSE v \in {Scanned(out) :
                              out \in {Sscanf(value, layout, 1, 1, <<>>)}} :
                 TRUE

-----------------------------------------------------------------------------
(* The caller.  The library is a set of pure functions on values; a state  *)
(* is what a caller holds after a sequence of calls.                       *)

ZeroTime == [sec |-> WZero, nsec |-> 0]

Init ==
    /\ fn = "none"
    /\ cal = <<>>
    /\ t = ZeroTime
    /\ u = ZeroTime
    /\ d = WZero
    /\ mul = WZero
    /\ x = WZero
    /\ n = 0
    /\ old = ZeroTime
    /\ unix = WZero
    /\ blob = <<>>
    /\ cal0 = <<>>
    /\ ymd = <<>>
    /\ str = <<>>
    /\ zone = <<>>

\* The Gregorian calendar as the claims speak of it.
LeapYear(y) == y % 4 = 0 /\ (y % 100 # 0 \/ y % 400 = 0)

DaysIn(y, mo) ==
    IF mo = 2 THEN (IF LeapYear(y) THEN 29 ELSE 28)
    ELSE IF mo \in {4, 6, 9, 11} THEN 30
    ELSE 31

-----------------------------------------------------------------------------
(* Calendar composition and decomposition: one time_date call.             *)

CalYears == {1, 1900, 1970, 2000, 2023, 2024}

CalClocks == {<<0, 0, 0, 0>>, <<23, 59, 59, 999999999>>}

InRange(c) ==
    /\ c[2] \in 1..12
    /\ c[3] \in 1..DaysIn(c[1], c[2])
    /\ c[4] \in 0..23
    /\ c[5] \in 0..59
    /\ c[6] \in 0..59
    /\ c[7] \in 0..999999999

\* Every day of every year of CalYears, at each clock reading, offset 0.
InRangeCals ==
    {c \in {<<y, mo, dd, k[1], k[2], k[3], k[4], 0>> :
                y \in CalYears, mo \in 1..12, dd \in 1..31, k \in CalClocks} :
        InRange(c)}

\* Fields outside their ranges: each field of each base date in turn takes
\* values below and beyond both ends of its range.
OutBases ==
    {<<2024, 2, 29, 23, 59, 59, 999999999, 0>>,
     <<2023, 12, 31, 0, 0, 0, 0, 0>>,
     <<1, 1, 1, 0, 0, 0, 0, 0>>,
     <<2024, 10, 31, 12, 30, 15, 500000000, 0>>}

OutVals ==
    <<{},
      {-13, -12, -11, -1, 0, 13, 14, 24, 25},
      {-366, -31, -1, 0, 32, 60, 366, 367},
      {-49, -25, -24, -1, 24, 25, 48},
      {-121, -61, -60, -1, 60, 61, 120},
      {-121, -61, -60, -1, 60, 61, 120},
      {-1000000000, -999999999, -1, 1000000000}>>

OutCals ==
    UNION {{[b EXCEPT ![i] = v] : v \in OutVals[i]} :
              b \in OutBases, i \in 2..7}

\* Offsets in seconds east of UTC, and the dates they are applied to, with
\* fields in and out of range.
CalOffsets ==
    {-5 * 3600, 5 * 3600 + 1800, 14 * 3600, -12 * 3600, 1, -1, 86400,
     -86400, 2147483647, -2147483647 - 1}

OffsetBases ==
    {<<2011, 11, 18, 15, 56, 35, 0, 0>>,
     <<2011, 11, 18, 15, 56, 35, 666777888, 0>>,
     <<2024, 2, 29, 23, 59, 59, 999999999, 0>>,
     <<1, 1, 1, 0, 0, 0, 0, 0>>,
     <<1970, 1, 1, 0, 0, 0, 0, 0>>,
     <<2023, 13, 0, -1, 60, -61, 1000000000, 0>>}

OffsetCals == {[b EXCEPT ![8] = off] : b \in OffsetBases, off \in CalOffsets}

\* time_date applied to a tuple of fields.
DateOf(c) == time_date(c[1], c[2], c[3], c[4], c[5], c[6], c[7], c[8])

TimeDate(c) ==
    /\ fn' = "time_date"
    /\ cal' = c
    /\ old' = u
    /\ u' = t
    /\ t' = DateOf(c)
    /\ n' = n + 1
    /\ cal0' = cal
    /\ UNCHANGED <<d, mul, x, unix, blob, ymd, str, zone>>

CalNext ==
    \E c \in InRangeCals \cup OutCals \cup OffsetCals : n = 0 /\ TimeDate(c)

SpecCal == Init /\ [][CalNext]_vars

\* C1: for in-range fields at offset 0, time_get_date, time_get_clock and
\* time_get_nano of time_date(y, m, d, h, mi, s, ns, 0) recover exactly
\* (y, m, d, h, mi, s, ns), on every day of a leap year as well.
C1_CalendarRoundTrip ==
    (fn = "time_date" /\ InRange(cal) /\ cal[8] = 0) =>
        /\ time_get_date(t) = <<cal[1], cal[2], cal[3]>>
        /\ time_get_clock(t) = <<cal[4], cal[5], cal[6]>>
        /\ time_get_nano(t) = cal[7]

\* One unit of carry moved between the neighbouring fields hi and lo of c:
\* up (hi + 1, lo - base) and down (hi - 1, lo + base).
CarryUp(c, hi, lo, base) == [c EXCEPT ![hi] = @ + 1, ![lo] = @ - base]
CarryDown(c, hi, lo, base) == [c EXCEPT ![hi] = @ - 1, ![lo] = @ + base]

CarryPairs ==
    {<<1, 2, 12>>, <<3, 4, 24>>, <<4, 5, 60>>, <<5, 6, 60>>,
     <<6, 7, 1000000000>>}

\* C2: out-of-range fields are normalized: time_date gives the same instant
\* when one unit of carry moves between neighbouring fields (year/month,
\* day/hour, hour/min, min/sec, sec/nsec), for positive, zero and negative
\* field values, and the day one past the end of a month is day 1 of the
\* next month.
C2_CarryNormalized ==
    fn = "time_date" =>
        /\ \A p \in CarryPairs :
              /\ DateOf(CarryUp(cal, p[1], p[2], p[3])) = t
              /\ DateOf(CarryDown(cal, p[1], p[2], p[3])) = t
        /\ (cal[2] \in 2..12 /\ cal[3] = 1) =>
              DateOf([cal EXCEPT ![2] = @ - 1,
                                 ![3] = DaysIn(cal[1], cal[2] - 1) + 1]) = t
        /\ (cal[2] = 1 /\ cal[3] = 1) =>
              /\ DateOf([cal EXCEPT ![1] = @ - 1, ![2] = 12, ![3] = 32]) = t
              /\ DateOf([cal EXCEPT ![1] = @ - 1, ![2] = 13]) = t

\* October 32 has been passed to time_date and came back as November 1.
C2_Witness ==
    /\ fn = "time_date"
    /\ cal = <<2024, 10, 32, 12, 30, 15, 500000000, 0>>
    /\ t = DateOf(<<2024, 11, 1, 12, 30, 15, 500000000, 0>>)
    /\ time_get_date(t) = <<2024, 11, 1>>

-----------------------------------------------------------------------------
(* Chains of calls: an instant is built by one of the constructors and    *)
(* then passed through time_add, time_add_date, time_truncate and         *)
(* time_round, MaxCalls times at most.                                     *)

MaxCalls == 2

\* Arguments of time_date, in and out of range.
ChainCals ==
    {<<2024, 2, 29, 23, 59, 59, 999999999, 0>>,
     <<1, 1, 1, 0, 0, 0, 0, 0>>,
     <<2023, 12, 31, 0, 0, 0, -1, 0>>,
     <<1970, 1, 1, 0, 0, -1, 1000000000, 3600>>,
     <<0, 0, 0, -1, -1, -1, -1999999999, -3600>>,
     <<-292277, 13, 32, 24, 60, 60, 2147483647, 0>>}

\* Arguments <<sec, nsec>> of time_unix.
ChainUnix ==
    {<<WZero, IntW(-1)>>,
     <<IntW(-1), NatW(1999999999)>>,
     <<NatW(1700000000), DURATION_MIN>>,
     <<WZero, DURATION_MAX>>,
     <<IntW(-1), IntW(-Billion)>>,
     <<internal_to_unix, WZero>>}

\* Arguments of time_unix_milli, time_unix_micro and time_unix_nano.
ChainCounts ==
    {IntW(-1), NatW(1500), IntW(-1000000001), DURATION_MIN, DURATION_MAX}

\* Durations passed to time_add.
ChainAdds ==
    {TIME_NANO, WNeg(TIME_NANO), NatW(999999999), IntW(-999999999),
     Dec(0, 1, 500000000), DURATION_MAX, DURATION_MIN}

\* <<years, months, days>> passed to time_add_date.
ChainDates == {<<0, 1, 0>>, <<-1, 2, 3>>, <<0, 0, -1>>, <<1, -13, 31>>}

\* Units passed to time_truncate and time_round.
ChainUnits == {TIME_SECOND, TIME_HOUR, Dec(0, 1, 500000000), WZero}

\* A call that returns the instant r.
Returns(name, r) ==
    /\ fn' = name
    /\ old' = u
    /\ u' = t
    /\ t' = r
    /\ n' = n + 1

TimeUnix(sec, nsec) ==
    /\ Returns("time_unix", time_unix(sec, nsec))
    /\ unix' = sec
    /\ d' = nsec
    /\ UNCHANGED <<cal, mul, x, blob, cal0, ymd, str, zone>>

TimeUnixMilli(msec) ==
    /\ Returns("time_unix_milli", time_unix_milli(msec))
    /\ d' = msec
    /\ UNCHANGED <<cal, mul, x, unix, blob, cal0, ymd, str, zone>>

TimeUnixMicro(usec) ==
    /\ Returns("time_unix_micro", time_unix_micro(usec))
    /\ d' = usec
    /\ UNCHANGED <<cal, mul, x, unix, blob, cal0, ymd, str, zone>>

TimeUnixNano(nsec) ==
    /\ Returns("time_unix_nano", time_unix_nano(nsec))
    /\ d' = nsec
    /\ UNCHANGED <<cal, mul, x, unix, blob, cal0, ymd, str, zone>>

TimeAdd(dur) ==
    /\ Returns("time_add", time_add(t, dur))
    /\ d' = dur
    /\ UNCHANGED <<cal, mul, x, unix, blob, cal0, ymd, str, zone>>

TimeAddDate(years, months, days) ==
    /\ Returns("time_add_date", time_add_date(t, years, months, days))
    /\ ymd' = <<years, months, days>>
    /\ UNCHANGED <<cal, d, mul, x, unix, blob, cal0, str, zone>>

TimeTruncate(dur) ==
    /\ Returns("time_truncate", time_truncate(t, dur))
    /\ d' = dur
    /\ UNCHANGED <<cal, mul, x, unix, blob, cal0, ymd, str, zone>>

TimeRound(dur) ==
    /\ Returns("time_round", time_round(t, dur))
    /\ d' = dur
    /\ UNCHANGED <<cal, mul, x, unix, blob, cal0, ymd, str, zone>>

Next ==
    \/ \E c \in ChainCals : n = 0 /\ TimeDate(c)
    \/ \E a \in ChainUnix : n = 0 /\ TimeUnix(a[1], a[2])
    \/ \E a \in ChainCounts : n = 0 /\ TimeUnixMilli(a)
    \/ \E a \in ChainCounts : n = 0 /\ TimeUnixMicro(a)
    \/ \E a \in ChainCounts : n = 0 /\ TimeUnixNano(a)
    \/ \E a \in ChainAdds : n \in 1..MaxCalls /\ TimeAdd(a)
    \/ \E a \in ChainDates : n \in 1..MaxCalls /\ TimeAddDate(a[1], a[2], a[3])
    \/ \E a \in ChainUnits : n \in 1..MaxCalls /\ TimeTruncate(a)
    \/ \E a \in ChainUnits : n \in 1..MaxCalls /\ TimeRound(a)

Spec == Init /\ [][Next]_vars

\* C3: every instant built by time_date, time_unix, time_unix_milli,
\* time_unix_micro or time_unix_nano, and every instant reached from one by
\* time_add, time_add_date, time_truncate and time_round, has its nsec
\* between 0 and 999999999.
C3_NsecNormalized == fn # "none" => t.nsec \in 0..999999999

\* time_add has carried one second out of nsec, and has borrowed one.
C3_Witness ==
    /\ fn = "time_add"
    /\ u.nsec + WInt(SMod(d, NatW(Billion))) >= Billion
    /\ t.nsec = u.nsec + WInt(SMod(d, NatW(Billion))) - Billion

-----------------------------------------------------------------------------
(* Differences of instants: two instants are built, or one is built and    *)
(* moved by time_add, and time_sub takes their difference.                 *)

\* Blobs read by time_unmarshal_binary: the instant that six calls of
\* time_add(., DURATION_MIN) make of time_unix(INT64_MIN, 0), about 215
\* years after the least second; 2024-02-29 00:00:00; a blob of version 2.
SubBlobs ==
    {<<1, 128, 0, 0, 1, 149, 9, 8, 226, 51, 239, 172, 0>>,
     <<1, 0, 0, 0, 14, 221, 113, 192, 0, 0, 0, 0, 0>>,
     <<2, 0, 0, 0, 0, 0, 0, 48, 57, 0, 0, 0, 5>>}

\* Arguments <<sec, nsec>> of time_unix: around the Unix epoch, 2^63 ns
\* and one less or more to either side of it, and the greatest second.
SubUnix ==
    {<<WZero, WZero>>,
     <<WZero, NatW(999999999)>>,
     <<NatW(1700000000), NatW(5)>>,
     <<Dec(0, 9, 223372036), NatW(854775807)>>,
     <<Dec(0, 9, 223372036), NatW(854775808)>>,
     <<Dec(0, 9, 223372036), NatW(854775809)>>,
     <<WNeg(Dec(0, 9, 223372037)), NatW(145224192)>>,
     <<WNeg(Dec(0, 9, 223372037)), NatW(145224191)>>,
     <<internal_to_unix, WZero>>,
     <<WSub(DURATION_MAX, unix_to_internal), WZero>>}

\* Durations passed to time_add.
SubAdds ==
    {TIME_NANO, WNeg(TIME_NANO), NatW(999999999), Dec(0, 1, 500000000),
     WNeg(Dec(0, 1, 500000000)), DURATION_MAX, DURATION_MIN}

TimeUnmarshalBinary(b) ==
    /\ Returns("time_unmarshal_binary", time_unmarshal_binary(b))
    /\ blob' = b
    /\ UNCHANGED <<cal, d, mul, x, unix, cal0, ymd, str, zone>>

TimeSub ==
    /\ fn' = "time_sub"
    /\ x' = time_sub(t, u)
    /\ n' = n + 1
    /\ UNCHANGED <<cal, t, u, d, mul, old, unix, blob, cal0, ymd, str, zone>>

SubNext ==
    \/ \E a \in SubUnix : n \in 0..1 /\ TimeUnix(a[1], a[2])
    \/ \E b \in SubBlobs : n \in 0..1 /\ TimeUnmarshalBinary(b)
    \/ \E a \in SubAdds : n = 1 /\ TimeAdd(a)
    \/ n = 2 /\ TimeSub

SpecSub == Init /\ [][SubNext]_vars

\* The order of instants and their exact distance, as the claims speak of
\* them.  For hi not before lo, hi.sec - lo.sec is exact as a uint64_t; a
\* distance of fewer than GapLimit seconds is below 2^64 nanoseconds.
Earlier(a, b) == SLt(a.sec, b.sec) \/ (a.sec = b.sec /\ a.nsec < b.nsec)

GapLimit == Dec(0, 9, 223372038)

GapSmall(hi, lo) == ULt(WSub(hi.sec, lo.sec), GapLimit)

GapNanos(hi, lo) ==
    WAdd(WMul(WSub(hi.sec, lo.sec), TIME_SECOND), IntW(hi.nsec - lo.nsec))

\* a - b is between -2^63 and 2^63 - 1 nanoseconds.
FitsDuration(a, b) ==
    IF Earlier(a, b)
    THEN GapSmall(b, a)
         /\ (~WNegative(GapNanos(b, a)) \/ GapNanos(b, a) = DURATION_MIN)
    ELSE GapSmall(a, b) /\ ~WNegative(GapNanos(a, b))

\* a - b, saturated at the ends of Duration.
SaturatedSub(a, b) ==
    IF FitsDuration(a, b)
    THEN (IF Earlier(a, b) THEN WNeg(GapNanos(b, a)) ELSE GapNanos(a, b))
    ELSE (IF Earlier(a, b) THEN DURATION_MIN ELSE DURATION_MAX)

Sign(w) == IF w = WZero THEN 0 ELSE IF WNegative(w) THEN -1 ELSE 1

\* C4: time_sub(t, u) is the exact difference t - u when that fits in a
\* Duration, DURATION_MAX when it does not and t is after u, DURATION_MIN when
\* it does not and t is before u; its sign is that of time_compare(t, u).
C4_SubSaturates ==
    fn = "time_sub" =>
        /\ x = SaturatedSub(t, u)
        /\ Sign(x) = time_compare(t, u)

\* time_add(u, d) has moved u in the direction of d: the seconds did not
\* overflow.
Toward(a, dur, b) ==
    IF WNegative(dur) THEN ~Earlier(a, b) ELSE ~Earlier(b, a)

\* C5: for instants t and u whose difference fits in a Duration,
\* time_add(u, time_sub(t, u)) is t; and time_sub(time_add(t, d), t) is d
\* when the addition does not overflow the seconds.
C5_AddSubRoundTrip ==
    /\ (fn = "time_sub" /\ FitsDuration(t, u)) => time_add(u, x) = t
    /\ (fn = "time_add" /\ Toward(u, d, t)) => time_sub(t, u) = d

\* A difference that borrows from the seconds has been taken and added back.
C5_Witness ==
    /\ fn = "time_sub"
    /\ FitsDuration(t, u)
    /\ SLt(u.sec, t.sec)
    /\ t.nsec < u.nsec
    /\ time_add(u, x) = t

-----------------------------------------------------------------------------
(* Rounding: an instant is built and truncated or rounded to a unit; a     *)
(* duration is truncated or rounded to a multiple.                         *)

\* Units of 1 .. MaxUnit seconds; instants up to 2 * MaxUnit seconds to
\* either side of the zero time.
MaxUnit == 3

RoundSecs == (-2 * MaxUnit)..(2 * MaxUnit)

RoundNanos == {0, 1, 499999999, 500000000, 500000001, 999999999}

\* Arguments <<sec, nsec>> of time_unix: half past an hour, a second before
\* the Unix epoch, the least second.
RoundUnix ==
    {<<NatW(1700001000), WZero>>,
     <<NatW(1700000000), NatW(123456789)>>,
     <<IntW(-1), NatW(500000000)>>,
     <<IntW(-1800), WZero>>,
     <<DURATION_MIN, NatW(1)>>}

\* Whole seconds, units that are not positive, units that are not whole
\* seconds.
RoundUnits ==
    {WMulSmall(TIME_SECOND, k) : k \in 1..MaxUnit}
    \cup {TIME_MINUTE, TIME_HOUR, WMulSmall(TIME_HOUR, 24)}
    \cup {WZero, WNeg(TIME_NANO), WNeg(TIME_SECOND), DURATION_MIN}
    \cup {TIME_NANO, TIME_MILLI, Dec(0, 0, 500000000), Dec(0, 1, 500000000)}

RoundDurs ==
    {WZero, TIME_NANO, WNeg(TIME_NANO),
     Dec(0, 25, 0), WNeg(Dec(0, 25, 0)),
     Dec(0, 25, 500000000), WNeg(Dec(0, 25, 500000000)),
     Dec(0, 24, 999999999), WNeg(Dec(0, 24, 999999999)),
     Dec(0, 15, 0), WNeg(Dec(0, 15, 0)),
     Dec(0, 20, 0), WNeg(Dec(0, 20, 0)),
     DURATION_MAX, DURATION_MIN,
     WSub(DURATION_MAX, Dec(0, 7, 0)), WAdd(DURATION_MIN, Dec(0, 7, 0))}

RoundMults ==
    {TIME_NANO, NatW(2), NatW(7), TIME_SECOND, Dec(0, 10, 0), TIME_HOUR,
     DURATION_MAX, WZero, WNeg(TIME_NANO), WNeg(Dec(0, 10, 0)), DURATION_MIN}

\* A call that returns the duration r for the arguments dur and m.
ReturnsDuration(name, dur, m, r) ==
    /\ fn' = name
    /\ d' = dur
    /\ mul' = m
    /\ x' = r
    /\ n' = n + 1
    /\ UNCHANGED <<cal, t, u, old, unix, blob, cal0, ymd, str, zone>>

DurationTruncate(dur, m) ==
    ReturnsDuration("duration_truncate", dur, m, duration_truncate(dur, m))

DurationRound(dur, m) ==
    ReturnsDuration("duration_round", dur, m, duration_round(dur, m))

DurationAbs(dur) ==
    /\ fn' = "duration_abs"
    /\ d' = dur
    /\ x' = duration_abs(dur)
    /\ n' = n + 1
    /\ UNCHANGED <<cal, t, u, mul, old, unix, blob, cal0, ymd, str, zone>>

\* The caller holds an instant it has built.
Built == n = 1 /\ fn \in {"time_date", "time_unix"}

RoundNext ==
    \/ \E s \in RoundSecs, ns \in RoundNanos :
          n = 0 /\ TimeDate(<<1, 1, 1, 0, 0, s, ns, 0>>)
    \/ \E a \in RoundUnix : n = 0 /\ TimeUnix(a[1], a[2])
    \/ \E a \in RoundUnits : Built /\ TimeTruncate(a)
    \/ \E a \in RoundUnits : Built /\ TimeRound(a)
    \/ \E a \in RoundDurs, m \in RoundMults : n = 0 /\ DurationTruncate(a, m)
    \/ \E a \in RoundDurs, m \in RoundMults : n = 0 /\ DurationRound(a, m)
    \/ \E a \in RoundDurs : n = 0 /\ DurationAbs(a)

SpecRound == Init /\ [][RoundNext]_vars

\* dur is a positive whole number of seconds.
WholeSeconds(dur) == SLt(WZero, dur) /\ SMod(dur, TIME_SECOND) = WZero

\* tm is a multiple of dur since the zero time.
MultipleOf(tm, dur) ==
    tm.nsec = 0 /\ SMod(tm.sec, SDiv(dur, TIME_SECOND)) = WZero

\* C6: for a unit d > 0 of whole seconds and any instant t, before the zero
\* time as well, r = time_truncate(t, d) is a multiple of d since the zero
\* time (r.nsec = 0 and r.sec divisible by d / 1 s), r is not after t, and
\* t - r is less than d.
C6_TruncateRoundsDown ==
    (fn = "time_truncate" /\ WholeSeconds(d)) =>
        /\ MultipleOf(t, d)
        /\ ~Earlier(u, t)
        /\ GapSmall(u, t)
        /\ ULt(GapNanos(u, t), d)

\* An instant half a second before the zero time has been truncated to 3 s.
C6_Witness ==
    /\ fn = "time_truncate"
    /\ u = [sec |-> IntW(-1), nsec |-> 500000000]
    /\ d = Dec(0, 3, 0)
    /\ t = [sec |-> IntW(-3), nsec |-> 0]

\* C7: for a unit d > 0 of whole seconds and any instant t, time_round(t, d)
\* is the multiple of d nearest to t, the later one when t is halfway between
\* two; it is time_truncate(t, d) or time_truncate(t, d) + d.
C7_RoundNearest ==
    (fn = "time_round" /\ WholeSeconds(d)) =>
        LET Near(lo, gap) ==
                /\ MultipleOf(t, d)
                /\ ULt(WAdd(gap, gap), d) => t = lo
                /\ ~ULt(WAdd(gap, gap), d) => t = time_add(lo, d)
        IN  Near(time_truncate(u, d), GapNanos(u, time_truncate(u, d)))

\* An instant halfway between two multiples, before the zero time, has gone
\* to the later one.
C7_Witness ==
    /\ fn = "time_round"
    /\ u = [sec |-> IntW(-2), nsec |-> 500000000]
    /\ d = Dec(0, 3, 0)
    /\ t = ZeroTime

\* C8: time_round(time_round(t, d), d) = time_round(t, d) for every instant
\* t and every Duration d.
C8_RoundIdempotent == fn = "time_round" => time_round(t, d) = t

\* An instant that rounding to the hour has moved.
C8_Witness ==
    /\ fn = "time_round"
    /\ d = TIME_HOUR
    /\ t # u
    /\ time_round(t, d) = t

\* C9: a unit d <= 0 makes time_truncate(t, d) and time_round(t, d) return t,
\* and a multiple m <= 0 makes duration_truncate(x, m) and
\* duration_round(x, m) return x.
C9_NonPositiveUnit ==
    /\ (fn \in {"time_truncate", "time_round"} /\ SLe(d, WZero)) => t = u
    /\ (fn \in {"duration_truncate", "duration_round"} /\ SLe(mul, WZero))
          => x = d

\* An instant between two seconds has been truncated to -1 s.
C9_Witness ==
    /\ fn = "time_truncate"
    /\ d = WNeg(TIME_SECOND)
    /\ u.nsec = 500000001
    /\ t = u

\* C10: for m > 0, duration_round(d, m) is the multiple of m nearest to d,
\* the one of larger absolute value when d is halfway between two, whenever
\* that multiple is a Duration.
C10_DurationRoundNearest ==
    (fn = "duration_round" /\ SLt(WZero, mul)) =>
        LET Sat(mag) ==
                IF WNegative(d)
                THEN (~WNegative(mag) \/ mag = DURATION_MIN) => x = WNeg(mag)
                ELSE ~WNegative(mag) => x = mag
            Near(r) ==
                Sat(IF ULt(WAdd(r, r), mul) THEN WSub(WAbs(d), r)
                    ELSE WAdd(WSub(WAbs(d), r), mul))
        IN  Near(UMod(WAbs(d), mul))

\* -25 s, halfway between -20 s and -30 s, has been rounded to 10 s.
C10_Witness ==
    /\ fn = "duration_round"
    /\ d = WNeg(Dec(0, 25, 0))
    /\ mul = Dec(0, 10, 0)
    /\ x = WNeg(Dec(0, 30, 0))

\* The absolute value of the multiple of m nearest to d, as an unsigned
\* word: it is below 2^64 for every d and every m > 0.
NearestMagnitude(dur, m) ==
    LET Near(r) == IF ULt(WAdd(r, r), m) THEN WSub(WAbs(dur), r)
                   ELSE WAdd(WSub(WAbs(dur), r), m)
    IN  Near(UMod(WAbs(dur), m))

\* C11: for m > 0, duration_round(d, m) is DURATION_MAX when the multiple
\* of m nearest to d is greater than DURATION_MAX and DURATION_MIN when it
\* is less than DURATION_MIN, and it never has the sign opposite to d's.
C11_DurationRoundSaturates ==
    (fn = "duration_round" /\ SLt(WZero, mul)) =>
        /\ (~WNegative(d) /\ ULt(DURATION_MAX, NearestMagnitude(d, mul)))
              => x = DURATION_MAX
        /\ (WNegative(d) /\ ULt(DURATION_MIN, NearestMagnitude(d, mul)))
              => x = DURATION_MIN
        /\ ~WNegative(d) => ~WNegative(x)
        /\ WNegative(d) => SLe(x, WZero)

\* DURATION_MAX, which lies above the last multiple of 10 s that is a
\* Duration and nearer to the next one, came back as DURATION_MAX.
C11_Witness ==
    /\ fn = "duration_round"
    /\ d = DURATION_MAX
    /\ mul = Dec(0, 10, 0)
    /\ ULt(DURATION_MAX, NearestMagnitude(d, mul))
    /\ x = DURATION_MAX

\* C12: for m > 0, duration_truncate(d, m) is a multiple of m, is 0 or has
\* the sign of d, is no farther from 0 than d and is less than m away
\* from d.
C12_DurationTruncateTowardZero ==
    (fn = "duration_truncate" /\ SLt(WZero, mul)) =>
        /\ SMod(x, mul) = WZero
        /\ x = WZero \/ WNegative(x) = WNegative(d)
        /\ ~ULt(WAbs(d), WAbs(x))
        /\ ULt(WAbs(WSub(d, x)), mul)

\* -25.5 s has been truncated to 10 s and came back as -20 s.
C12_Witness ==
    /\ fn = "duration_truncate"
    /\ d = WNeg(Dec(0, 25, 500000000))
    /\ mul = Dec(0, 10, 0)
    /\ x = WNeg(Dec(0, 20, 0))

\* C13: duration_abs(d) is never negative: it is d for d >= 0, the
\* duration that added to d gives 0 for DURATION_MIN < d < 0, and
\* DURATION_MAX for DURATION_MIN.
C13_DurationAbsNonNegative ==
    fn = "duration_abs" =>
        /\ ~WNegative(x)
        /\ ~WNegative(d) => x = d
        /\ (WNegative(d) /\ d # DURATION_MIN) => WAdd(x, d) = WZero
        /\ d = DURATION_MIN => x = DURATION_MAX

\* The absolute value of DURATION_MIN has been taken.
C13_Witness ==
    /\ fn = "duration_abs"
    /\ d = DURATION_MIN
    /\ x = DURATION_MAX

-----------------------------------------------------------------------------
(* Marshaling: the caller builds an instant, or writes one as a struct     *)
(* literal, has time_marshal_binary write it to a buffer, may overwrite    *)
(* the version byte, and reads the buffer with time_unmarshal_binary.      *)

\* Seconds since the Unix epoch: the epoch, before it, the zero time, a
\* second before the zero time, 2023, far future and far past.
BinSecs ==
    {WZero, IntW(-1), internal_to_unix, WSub(internal_to_unix, WOne),
     NatW(1700000000), Dec(4, 611686018, 427387904),
     WNeg(Dec(4, 611686018, 427387904))}

BinNanos == {0, 1, 255, 256, 65536, 16777216, 123456789, 999999999}

\* Struct literals <<sec, nsec>>: the least and the greatest second, and
\* values of the int32_t field nsec that no constructor produces.
BinLiterals ==
    {<<DURATION_MIN, 0>>, <<DURATION_MAX, 999999999>>,
     <<WZero, -1>>, <<WOne, 1000000000>>, <<IntW(-1), 2147483647>>,
     <<NatW(1700000000), -2147483647 - 1>>}

\* Values written over the version byte; 1 leaves the buffer as it is.
BinVersions == {0, 1, 2, 255}

\* The caller writes the instant (Time){sec, nsec}.
TimeLiteral(sec, nsec) ==
    /\ Returns("literal", [sec |-> sec, nsec |-> nsec])
    /\ UNCHANGED <<cal, d, mul, x, unix, blob, cal0, ymd, str, zone>>

TimeMarshalBinary ==
    /\ fn' = "time_marshal_binary"
    /\ blob' = time_marshal_binary(t)
    /\ n' = n + 1
    /\ UNCHANGED <<cal, t, u, d, mul, x, old, unix, cal0, ymd, str, zone>>

BinNext ==
    \/ \E s \in BinSecs, ns \in BinNanos : n = 0 /\ TimeUnix(s, NatW(ns))
    \/ \E a \in BinLiterals : n = 0 /\ TimeLiteral(a[1], a[2])
    \/ n \in 0..1 /\ TimeMarshalBinary
    \/ \E ver \in BinVersions :
          /\ fn = "time_marshal_binary"
          /\ TimeUnmarshalBinary([blob EXCEPT ![0 + 1] = ver])

SpecBin == Init /\ [][BinNext]_vars

\* C14: time_unmarshal_binary applied to the 13 bytes that
\* time_marshal_binary wrote for an instant returns an instant equal to it,
\* for instants before the zero time, the zero time and every nsec.
C14_BinaryRoundTrip ==
    (fn = "time_unmarshal_binary" /\ blob = time_marshal_binary(u)) =>
        /\ time_equal(t, u)
        /\ t = u

\* An instant before the zero time with the greatest nsec has been written
\* and read back.
C14_Witness ==
    /\ fn = "time_unmarshal_binary"
    /\ blob = time_marshal_binary(u)
    /\ WNegative(u.sec)
    /\ u.nsec = 999999999
    /\ t = u

\* C15: time_marshal_binary writes 13 bytes: the version 1 at offset 0,
\* sec most significant byte first at offsets 1-8 and nsec most significant
\* byte first at offsets 9-12; time_unmarshal_binary returns the zero time
\* for a buffer whose byte 0 is not 1, whatever the other bytes are.
C15_BinaryLayout ==
    /\ fn = "time_marshal_binary" =>
          /\ Len(blob) = 13
          /\ blob[0 + 1] = 1
          /\ \A k \in 1..8 : blob[k + 1] = t.sec[9 - k]
          /\ \A k \in 9..12 : blob[k + 1] = IntW(t.nsec)[13 - k]
          /\ t.nsec \in 0..999999999 =>
                t.nsec = blob[9 + 1] * 16777216 + blob[10 + 1] * 65536
                         + blob[11 + 1] * 256 + blob[12 + 1]
    /\ (fn = "time_unmarshal_binary" /\ blob[0 + 1] # 1) => t = ZeroTime

\* A buffer holding an instant of 2023 under version 2 has been read and
\* gave the zero time.
C15_Witness ==
    /\ fn = "time_unmarshal_binary"
    /\ blob[0 + 1] = 2
    /\ SubSeq(blob, 2, 13) = SubSeq(time_marshal_binary(u), 2, 13)
    /\ u = time_unix(NatW(1700000000), NatW(123456789))
    /\ t = ZeroTime

-----------------------------------------------------------------------------
(* Comparison: the caller holds three instants and compares the last two.  *)

OrdUnix ==
    {<<WZero, WZero>>, <<WZero, NatW(1)>>, <<WZero, NatW(999999999)>>,
     <<WOne, WZero>>, <<IntW(-1), NatW(999999999)>>,
     <<internal_to_unix, WZero>>, <<internal_to_unix, IntW(-1)>>}

OrdLiterals ==
    {<<DURATION_MIN, 0>>, <<DURATION_MIN, 999999999>>, <<DURATION_MAX, 0>>,
     <<DURATION_MAX, 999999999>>}

TimeCompare ==
    /\ fn' = "time_compare"
    /\ x' = IntW(time_compare(t, u))
    /\ n' = n + 1
    /\ UNCHANGED <<cal, t, u, d, mul, old, unix, blob, cal0, ymd, str, zone>>

OrdNext ==
    \/ \E a \in OrdUnix : n \in 0..2 /\ TimeUnix(a[1], a[2])
    \/ \E a \in OrdLiterals : n \in 0..2 /\ TimeLiteral(a[1], a[2])
    \/ n = 3 /\ TimeCompare

SpecOrd == Init /\ [][OrdNext]_vars

\* C16: of time_before(t, u), time_equal(t, u) and time_after(t, u) exactly
\* one holds, and time_compare(t, u) is -1, 0, +1 respectively;
\* time_before(t, u) holds exactly when time_after(u, t) does; and
\* time_before is transitive.
C16_TotalOrder ==
    fn = "time_compare" =>
        /\ Cardinality({k \in 1..3 :
               <<time_before(t, u), time_equal(t, u), time_after(t, u)>>[k]})
             = 1
        /\ time_before(t, u) <=> x = IntW(-1)
        /\ time_equal(t, u) <=> x = WZero
        /\ time_after(t, u) <=> x = WOne
        /\ time_before(t, u) <=> time_after(u, t)
        /\ time_before(u, t) <=> time_after(t, u)
        /\ (time_before(old, u) /\ time_before(u, t)) => time_before(old, t)

\* Three instants in increasing order, the last two within one second,
\* have been compared.
C16_Witness ==
    /\ fn = "time_compare"
    /\ time_before(old, u)
    /\ u.sec = t.sec
    /\ u.nsec < t.nsec
    /\ x = WOne

-----------------------------------------------------------------------------
(* The fixed epochs and the offset from UTC, for one time_date call.       *)

\* C17: time_date(1, January, 1, 0, 0, 0, 0, 0) is the zero instant
\* {sec = 0, nsec = 0}, which alone makes time_is_zero true, and
\* time_date(1970, January, 1, 0, 0, 0, 0, 0) is time_unix(0, 0).
C17_FixedEpochs ==
    fn = "time_date" =>
        /\ cal = <<1, TIME_JANUARY, 1, 0, 0, 0, 0, 0>> => t = ZeroTime
        /\ time_is_zero(t) <=> t = ZeroTime
        /\ (time_is_zero(t) /\ InRange(cal) /\ cal[8] = 0)
              => cal = <<1, TIME_JANUARY, 1, 0, 0, 0, 0, 0>>
        /\ cal = <<1970, TIME_JANUARY, 1, 0, 0, 0, 0, 0>>
              => t = time_unix(WZero, WZero)

\* The first instant of year 1 has been composed and is the zero time.
C17_Witness ==
    /\ fn = "time_date"
    /\ cal = <<1, TIME_JANUARY, 1, 0, 0, 0, 0, 0>>
    /\ time_is_zero(t)

\* C20: time_date(y, m, d, h, mi, s, ns, offset_sec) is the instant
\* time_date(y, m, d, h, mi, s, ns, 0) moved by -offset_sec seconds with
\* time_add, for offsets east and west of UTC.
C20_OffsetSubtracted ==
    fn = "time_date" =>
        t = time_add(DateOf([cal EXCEPT ![8] = 0]),
                     WNeg(WMul(IntW(cal[8]), TIME_SECOND)))

\* 15:56:35 five hours west of UTC has been composed: it is 20:56:35 UTC.
C20_Witness ==
    /\ fn = "time_date"
    /\ cal = <<2011, 11, 18, 15, 56, 35, 0, -5 * 3600>>
    /\ t = DateOf(<<2011, 11, 18, 20, 56, 35, 0, 0>>)
    /\ time_get_clock(t) = <<20, 56, 35>>

-----------------------------------------------------------------------------
(* Unix time: an instant is built from a count of seconds, milliseconds,   *)
(* microseconds or nanoseconds and converted back to the same unit.        *)

\* The sec argument of time_unix: around the Unix epoch and the zero time,
\* the last second whose instant is representable, the least and the
\* greatest int64_t.
UnixSecs ==
    {WZero, WOne, IntW(-1), NatW(1700000000), internal_to_unix,
     WSub(internal_to_unix, WOne), WSub(DURATION_MAX, unix_to_internal),
     DURATION_MIN, DURATION_MAX}

\* The nsec argument of time_unix, inside and outside 0 .. 999999999.
UnixNanos ==
    {WZero, WOne, NatW(999999999), NatW(Billion), NatW(Billion + 1),
     IntW(-1), IntW(-999999999), IntW(-Billion), IntW(-Billion - 1),
     Dec(0, 1, 500000000), WNeg(Dec(0, 1, 500000000)),
     Dec(0, 7, 0), WNeg(Dec(0, 7, 1)), DURATION_MAX, DURATION_MIN}

\* Counts of milliseconds, microseconds and nanoseconds.
UnixCounts ==
    {WZero, WOne, IntW(-1), IntW(-1500), NatW(1500), IntW(-999), IntW(-1000),
     IntW(-1001), NatW(999), NatW(1000), IntW(-999999), IntW(-1000000),
     IntW(-1000001), IntW(-999999999), IntW(-Billion), IntW(-Billion - 1),
     Dec(0, 1700, 123456), WNeg(Dec(0, 1700, 123456)),
     Dec(1, 700000000, 123456789), WNeg(Dec(1, 700000000, 123456789)),
     DURATION_MAX, DURATION_MIN, WAdd(DURATION_MIN, WOne)}

\* A conversion of the held instant that returns the int64_t r.
ReturnsCount(name, r) ==
    /\ fn' = name
    /\ x' = r
    /\ n' = n + 1
    /\ UNCHANGED <<cal, t, u, d, mul, old, unix, blob, cal0, ymd, str, zone>>

TimeToUnix == ReturnsCount("time_to_unix", time_to_unix(t))

TimeToUnixMilli == ReturnsCount("time_to_unix_milli", time_to_unix_milli(t))

TimeToUnixMicro == ReturnsCount("time_to_unix_micro", time_to_unix_micro(t))

TimeToUnixNano == ReturnsCount("time_to_unix_nano", time_to_unix_nano(t))

UnixNext ==
    \/ \E s \in UnixSecs, ns \in UnixNanos : n = 0 /\ TimeUnix(s, ns)
    \/ \E a \in UnixCounts : n = 0 /\ TimeUnixMilli(a)
    \/ \E a \in UnixCounts : n = 0 /\ TimeUnixMicro(a)
    \/ \E a \in UnixCounts : n = 0 /\ TimeUnixNano(a)
    \/ fn = "time_unix" /\ TimeToUnix
    \/ fn = "time_unix_milli" /\ TimeToUnixMilli
    \/ fn = "time_unix_micro" /\ TimeToUnixMicro
    \/ fn = "time_unix_nano" /\ TimeToUnixNano

SpecUnix == Init /\ [][UnixNext]_vars

\* The quotient rounded down and the remainder that is never negative,
\* for a divisor b > 0.
FloorDiv(a, b) ==
    IF SLt(SMod(a, b), WZero) THEN WSub(SDiv(a, b), WOne) ELSE SDiv(a, b)

FloorMod(a, b) ==
    IF SLt(SMod(a, b), WZero) THEN WAdd(SMod(a, b), b) ELSE SMod(a, b)

\* a + b is an int64_t.
SumFits(a, b) ==
    WNegative(a) # WNegative(b) \/ WNegative(WAdd(a, b)) = WNegative(a)

\* The instant of time_unix(sec, nsec) is representable.
UnixFits(sec, nsec) ==
    /\ SumFits(sec, FloorDiv(nsec, NatW(Billion)))
    /\ SumFits(WAdd(sec, FloorDiv(nsec, NatW(Billion))), unix_to_internal)

\* C18: when nothing overflows, time_to_unix(time_unix(sec, nsec)) is
\* sec + floor(nsec / 1000000000) and time_get_nano(time_unix(sec, nsec))
\* is nsec mod 1000000000, which is never negative; nsec is any int64_t.
C18_UnixRoundTrip ==
    (fn = "time_to_unix" /\ UnixFits(unix, d)) =>
        /\ x = WAdd(unix, FloorDiv(d, NatW(Billion)))
        /\ IntW(time_get_nano(t)) = FloorMod(d, NatW(Billion))
        /\ time_get_nano(t) \in 0..999999999

\* time_unix(1, -1500000000) has been built and converted back: one and a
\* half seconds before second 1 is second -1 and 500000000 ns.
C18_Witness ==
    /\ fn = "time_to_unix"
    /\ unix = WOne
    /\ d = WNeg(Dec(0, 1, 500000000))
    /\ x = IntW(-1)
    /\ time_get_nano(t) = 500000000

\* C19: time_to_unix_milli(time_unix_milli(c)), time_to_unix_micro(
\* time_unix_micro(c)) and time_to_unix_nano(time_unix_nano(c)) are c, for
\* negative counts as for positive ones.
C19_SubSecondRoundTrip ==
    fn \in {"time_to_unix_milli", "time_to_unix_micro", "time_to_unix_nano"}
        => x = d

\* -1500 ms, which is 500 ms into second -2, has been converted back.
C19_Witness ==
    /\ fn = "time_to_unix_milli"
    /\ d = IntW(-1500)
    /\ t = time_unix(IntW(-2), NatW(500000000))
    /\ x = IntW(-1500)

-----------------------------------------------------------------------------
(* Days: an instant is built on a day of the calendar, or far from the     *)
(* present, and moved by whole days with time_add or time_add_date.        *)

\* The days of the calendar as the claims speak of them: the number of
\* days from 0001-01-01 to a date, and the day of the week of a date
\* (0001-01-01 was a Monday), Sunday = 0.
DaysBefore(y, mo) ==
    <<0, 31, 59, 90, 120, 151, 181, 212, 243, 273, 304, 334>>[mo]
    + (IF mo > 2 /\ LeapYear(y) THEN 1 ELSE 0)

YearStart(y) ==
    365 * (y - 1) + ((y - 1) \div 4) - ((y - 1) \div 100)
    + ((y - 1) \div 400)

DayNumber(y, mo, dd) == YearStart(y) + DaysBefore(y, mo) + dd - 1

WeekdayOf(y, mo, dd) == (DayNumber(y, mo, dd) + 1) % 7

\* Years whose turn is looked at from December 22 to January 11: years of
\* 52 and of 53 weeks, years that start on each day of the week, years
\* before year 1.
DayYears ==
    {-400, -1, 0, 1, 2, 1900, 1999, 2000, 2001, 2100} \cup (2014..2027)

DayClocks == {<<0, 0, 0, 0>>, <<12, 34, 56, 500000000>>,
              <<23, 59, 59, 999999999>>}

DayDates ==
    {<<y, 12, dd>> : y \in DayYears, dd \in 22..31}
    \cup {<<y, 1, dd>> : y \in DayYears, dd \in 1..11}
    \cup {<<y, 2, dd>> : y \in {1900, 2000, 2023, 2024}, dd \in 26..28}
    \cup {<<y, 2, 29>> : y \in {2000, 2024}}
    \cup {<<y, 3, dd>> : y \in {1900, 2000, 2023, 2024}, dd \in 1..3}

DayCals ==
    {<<a[1], a[2], a[3], k[1], k[2], k[3], k[4], 0>> :
        a \in DayDates, k \in DayClocks}

\* The first second of the absolute year, which is year -292277022399,
\* as a Unix time.
AbsoluteZeroUnix == WAdd(absolute_to_internal, internal_to_unix)

\* Arguments <<sec, nsec>> of time_unix far from the present: the least
\* second, the days around the absolute zero, and the last days that an
\* instant can hold.
DayUnix ==
    {<<DURATION_MIN, WZero>>,
     <<WSub(AbsoluteZeroUnix, NatW(200000)), WZero>>,
     <<WSub(AbsoluteZeroUnix, NatW(100000)), WZero>>,
     <<WSub(AbsoluteZeroUnix, WOne), NatW(999999999)>>,
     <<AbsoluteZeroUnix, WZero>>,
     <<WAdd(AbsoluteZeroUnix, NatW(86400)), NatW(1)>>,
     <<WSub(WSub(DURATION_MAX, unix_to_internal), NatW(86400)), WZero>>,
     <<WSub(WSub(DURATION_MAX, unix_to_internal), NatW(7 * 86400)), WZero>>}

TIME_DAY == WMulSmall(TIME_HOUR, 24)

\* Numbers of days passed to time_add_date.
DayCounts == {0, 1, -1, 7, 31, 366, -366, 106751, -106751}

DayNext ==
    \/ \E c \in DayCals : n = 0 /\ TimeDate(c)
    \/ \E a \in DayUnix : n = 0 /\ TimeUnix(a[1], a[2])
    \/ n = 1 /\ TimeAdd(TIME_DAY)
    \/ \E k \in DayCounts : n = 1 /\ TimeAddDate(0, 0, k)

SpecDay == Init /\ [][DayNext]_vars

\* The instant is not before the absolute zero, the first second of year
\* -292277022399, so that its absolute time has not wrapped.
AfterAbsoluteZero(tm) == SLe(absolute_to_internal, tm.sec)

ThursdayOf(y, mo, dd) ==
    DayNumber(y, mo, dd) - ((WeekdayOf(y, mo, dd) + 6) % 7) + 3

IsoYearOf(y, mo, dd) ==
    IF ThursdayOf(y, mo, dd) < YearStart(y) THEN y - 1
    ELSE IF ThursdayOf(y, mo, dd) >= YearStart(y + 1) THEN y + 1
    ELSE y

IsoWeekOf(y, mo, dd) ==
    <<IsoYearOf(y, mo, dd),
      1 + (ThursdayOf(y, mo, dd) - YearStart(IsoYearOf(y, mo, dd))) \div 7>>

LastYearEnd ==
    DateOf(<<2147483647, 12, 31, 23, 59, 59, 999999999, 0>>)

\* The supported range: from the absolute zero to the end of the last
\* year that the int returned by time_get_year can hold.
InSupportedRange(tm) ==
    AfterAbsoluteZero(tm) /\ ~time_after(tm, LastYearEnd)

-----------------------------------------------------------------------------
(* Years: an instant is built on a day of a year counted from January 1,   *)
(* and the first instants of two consecutive years are subtracted.         *)

\* Years around the ends of 4-year, 100-year and 400-year cycles, before
\* and after year 1, and years at both ends of the int range.
YearSet ==
    (-401..-395) \cup (-101..-95) \cup (-5..5) \cup (95..101)
    \cup (395..401) \cup (1895..1905) \cup (1995..2005) \cup (2019..2025)
    \cup (2095..2101) \cup (2395..2401)
    \cup {-2147483647, -2147483646, 2147483645, 2147483646}

YearLength(y) == IF LeapYear(y) THEN 366 ELSE 365

\* Day indexes k within year y, counted from 0: the first day, the days
\* around the end of February and the last day.
YearDays(y) == {0, 58, 59, 60, 364, YearLength(y) - 1}

YearSeconds == {0, 86399}

YearNext ==
    \/ \E y \in YearSet, s \in YearSeconds :
          \E k \in YearDays(y) :
              n = 0 /\ TimeDate(<<y, 1, k + 1, 0, 0, s, 0, 0>>)
    \/ /\ n = 1
       /\ cal = <<cal[1], 1, 1, 0, 0, 0, 0, 0>>
       /\ TimeDate(<<cal[1] + 1, 1, 1, 0, 0, 0, 0, 0>>)
    \/ n = 2 /\ TimeSub

SpecYear == Init /\ [][YearNext]_vars

\* C25: days_since_epoch(y + 1) - days_since_epoch(y) is 366 when y is
\* divisible by 4 and not by 100, or divisible by 400, and 365 otherwise,
\* for y <= 0 as well, and time_sub(time_date(y + 1, 1, 1, 0, 0, 0, 0, 0),
\* time_date(y, 1, 1, 0, 0, 0, 0, 0)) is that many days.
C25_YearLengths ==
    (fn = "time_sub" /\ cal[1] = cal0[1] + 1) =>
        /\ WSub(days_since_epoch(cal[1]), days_since_epoch(cal0[1]))
             = NatW(YearLength(cal0[1]))
        /\ x = WMulSmall(TIME_DAY, YearLength(cal0[1]))
        /\ x = WMulSmall(TIME_DAY, 366)
              <=> /\ cal0[1] % 4 = 0
                  /\ (cal0[1] % 100 # 0 \/ cal0[1] % 400 = 0)

\* The first instants of 1900 and 1901 have been subtracted: 1900, which is
\* divisible by 100 and not by 400, has 365 days.
C25_Witness ==
    /\ fn = "time_sub"
    /\ cal0 = <<1900, 1, 1, 0, 0, 0, 0, 0>>
    /\ cal = <<1901, 1, 1, 0, 0, 0, 0, 0>>
    /\ x = WMulSmall(TIME_DAY, 365)

\* C26: the instant days_since_epoch(y) + k days + s seconds, for a day
\* index 0 <= k < length of year y and a second s of the day, has
\* time_get_year y and time_get_yearday k + 1: the last day of a leap year
\* that ends a cycle is day 366 of that year, and 2024-03-01 is day 61.
C26_YearDayInverts ==
    (fn = "time_date" /\ n = 1 /\ cal[3] \in 1..YearLength(cal[1])) =>
        /\ abs_time(t) =
              WAdd(WMulSmall(WAdd(days_since_epoch(cal[1]),
                                  NatW(cal[3] - 1)),
                             seconds_per_day),
                   NatW(cal[6]))
        /\ time_get_year(t) = cal[1]
        /\ time_get_yearday(t) = cal[3]

\* The last second of day index 365 of the year 2000, which ends a
\* 400-year cycle, has been built: it is day 366 of 2000.
C26_Witness ==
    /\ fn = "time_date"
    /\ cal = <<2000, 1, 366, 0, 0, 86399, 0, 0>>
    /\ t = DateOf(<<2000, 12, 31, 23, 59, 59, 0, 0>>)
    /\ time_get_year(t) = 2000
    /\ time_get_yearday(t) = 366

-----------------------------------------------------------------------------
(* Whole days added by time_add_date, under SpecDay.                       *)

\* C27: time_add_date(t, 0, 0, k) is time_add(t, k * 24h) for every instant
\* t and every count of days k, and time_add_date(t, 0, 0, 0) is t, on
\* March 1 of a leap year as on every other day.
C27_AddDateDays ==
    (fn = "time_add_date" /\ ymd[1] = 0 /\ ymd[2] = 0) =>
        /\ time_equal(t, time_add(u, WMul(TIME_DAY, IntW(ymd[3]))))
        /\ ymd[3] = 0 => time_equal(t, u)

-----------------------------------------------------------------------------
(* Order of composed instants: two time_date calls and a comparison.       *)

\* In-range field tuples at offset 0: the first and last instants of years
\* up to both ends of the int range, the days around the end of a month
\* and of February 2024, and clock readings next to each other in every
\* field.
MonoCals ==
    {<<y, 1, 1, 0, 0, 0, 0, 0>> :
        y \in {-2147483647, 0, 2024, 2025, 2147483647}}
    \cup {<<y, 12, 31, 23, 59, 59, 999999999, 0>> :
        y \in {-2147483647, 0, 2024, 2025, 2147483647}}
    \cup {<<2024, 1, 31, 23, 59, 59, 999999999, 0>>,
          <<2024, 2, 1, 0, 0, 0, 0, 0>>,
          <<2024, 2, 28, 23, 59, 59, 999999999, 0>>,
          <<2024, 2, 29, 0, 0, 0, 0, 0>>,
          <<2024, 2, 29, 23, 59, 59, 999999999, 0>>,
          <<2024, 3, 1, 0, 0, 0, 0, 0>>,
          <<2024, 6, 15, 0, 0, 0, 0, 0>>,
          <<2024, 6, 15, 0, 0, 0, 1, 0>>,
          <<2024, 6, 15, 0, 0, 0, 999999999, 0>>,
          <<2024, 6, 15, 0, 0, 1, 0, 0>>,
          <<2024, 6, 15, 0, 0, 59, 999999999, 0>>,
          <<2024, 6, 15, 0, 1, 0, 0, 0>>,
          <<2024, 6, 15, 0, 59, 59, 999999999, 0>>,
          <<2024, 6, 15, 1, 0, 0, 0, 0>>,
          <<2024, 6, 15, 12, 30, 30, 500000000, 0>>,
          <<2024, 6, 15, 12, 30, 30, 500000001, 0>>}

MonoNext ==
    \/ \E c \in MonoCals : n \in 0..1 /\ TimeDate(c)
    \/ n = 2 /\ TimeCompare

SpecMono == Init /\ [][MonoNext]_vars

\* a comes before b in the lexicographic order of <<year, month, day, hour,
\* minute, second, nanosecond>>.
LexLess(a, b) ==
    \E i \in 1..7 : a[i] < b[i] /\ \A j \in 1..(i - 1) : a[j] = b[j]

\* C28: for in-range field tuples a and b at offset 0,
\* time_before(time_date(a), time_date(b)) holds exactly when a is before b
\* in lexicographic order, and distinct tuples never give the same instant.
C28_DateMonotonic ==
    (fn = "time_compare" /\ InRange(cal0) /\ InRange(cal)
        /\ cal0[8] = 0 /\ cal[8] = 0) =>
        /\ u = DateOf(cal0)
        /\ t = DateOf(cal)
        /\ time_before(u, t) <=> LexLess(cal0, cal)
        /\ cal0 # cal => ~time_equal(u, t)
        /\ x = IntW(1) <=> LexLess(cal0, cal)

\* The last nanosecond of January 2024 and the first instant of February
\* 2024 have been composed and compared: the day and every clock field
\* decrease, the month increases, and the first instant is before the
\* second.
C28_Witness ==
    /\ fn = "time_compare"
    /\ cal0 = <<2024, 1, 31, 23, 59, 59, 999999999, 0>>
    /\ cal = <<2024, 2, 1, 0, 0, 0, 0, 0>>
    /\ time_before(u, t)
    /\ ~time_equal(u, t)

-----------------------------------------------------------------------------
(* Units that are not whole seconds, under SpecRound.                      *)

-----------------------------------------------------------------------------
(* Text: an instant is composed, formatted at an offset and parsed back,   *)
(* or a string literal is parsed.                                          *)

TextCals ==
    {<<c[1], c[2], c[3], c[4], c[5], c[6], ns, 0>> :
        c \in {<<2011, 11, 18, 15, 56, 35>>,
               <<2023, 12, 31, 23, 59, 59>>,
               <<2024, 2, 29, 23, 30, 0>>,
               <<2024, 3, 1, 12, 0, 0>>,
               <<1, 1, 1, 0, 0, 0>>,
               <<9999, 12, 31, 23, 59, 59>>},
        ns \in {0, 1, 666777888}}

\* Offsets of whole minutes below 24 hours: 0, a minute, half an hour, an
\* hour, an hour and a half, five and a half hours and 23:59, east and
\* west.
TextOffsets ==
    {0, 60, -60, 1800, -1800, 3600, -3600, 5400, -5400, 19800, -19800,
     86340, -86340}

\* Sizes of the buffer: one that holds every text, and one that holds the
\* texts without nanoseconds only.
TextSizes == {26, 64}

LitDate == <<"2", "0", "1", "1", "-", "1", "1", "-", "1", "8">>
LitClock == <<"1", "5", ":", "5", "6", ":", "3", "5">>
LitNanos == <<".", "6", "6", "6", "7", "7", "7", "8", "8", "8">>
LitStamp == LitDate \o <<"T">> \o LitClock

\* The strings time_parse documents, offsets that are malformed in one
\* character, strings whose fields are shorter so that the offset ends
\* before the string does, and strings of other lengths.
TextLiterals ==
    {LitStamp \o <<"+", "0", "5", ":", "0", "0">>,
     LitStamp \o <<"-", "0", "5", ":", "3", "0">>,
     LitStamp \o LitNanos \o <<"+", "0", "5", ":", "0", "0">>,
     LitStamp \o LitNanos \o <<"-", "0", "5", ":", "3", "0">>,
     LitStamp \o <<"Z">>,
     LitStamp \o LitNanos \o <<"Z">>,
     LitDate \o <<" ">> \o LitClock,
     LitDate,
     LitClock,
     LitStamp \o <<"+", "0", "5", ":", "0", "X">>,
     LitStamp \o <<"+", "0", "X", ":", "0", "0">>,
     LitStamp \o <<"*", "0", "5", ":", "0", "0">>,
     LitStamp \o <<" ", "0", "5", ":", "0", "0">>,
     LitStamp \o <<"+", "0", "5", "0", "0", "0">>,
     LitStamp \o <<"+", "5", ":", "0", "0", "0">>,
     LitStamp \o LitNanos \o <<"+", "0", "5", "-", "0", "0">>,
     LitStamp \o LitNanos \o <<"+", "0", "5", ":", "0", "X">>,
     SubSeq(LitStamp, 1, 18) \o <<"+", "0", "5", ":", "0", "0", "0">>,
     SubSeq(LitStamp \o LitNanos, 1, 28)
         \o <<"+", "0", "5", ":", "0", "0", "0">>,
     LitStamp \o <<"+", "0", "5", "0", "0">>,
     LitStamp \o <<"+", "0", "5", ":", "0">>,
     LitStamp \o <<"+", "5", ":", "0", "0">>,
     LitStamp \o <<"+", "0", "5", ":", "0", "0", "Q">>,
     LitStamp \o LitNanos \o <<"+", "0", "5", ":", "0", "0", "X">>,
     SubSeq(LitStamp, 1, 16),
     LitClock \o <<"6">>,
     <<"1", ":", "2", ":", "3">>,
     <<>>}

\* The caller holds a string literal.
StringLiteral(s) ==
    /\ fn' = "string"
    /\ str' = s
    /\ n' = n + 1
    /\ UNCHANGED <<cal, t, u, d, mul, x, old, unix, blob, cal0, ymd, zone>>

TimeFmtIso(offset_sec, size) ==
    /\ fn' = "time_fmt_iso"
    /\ str' = time_fmt_iso(t, offset_sec, size).buf
    /\ x' = NatW(time_fmt_iso(t, offset_sec, size).len)
    /\ zone' = <<offset_sec, size>>
    /\ n' = n + 1
    /\ UNCHANGED <<cal, t, u, d, mul, old, unix, blob, cal0, ymd>>

TimeParse ==
    /\ Returns("time_parse", time_parse(str))
    /\ UNCHANGED <<cal, d, mul, x, unix, blob, cal0, ymd, str, zone>>

TextNext ==
    \/ \E c \in TextCals : n = 0 /\ TimeDate(c)
    \/ \E o \in TextOffsets, size \in TextSizes :
          n = 1 /\ fn = "time_date" /\ TimeFmtIso(o, size)
    \/ \E s \in TextLiterals : n = 0 /\ StringLiteral(s)
    \/ fn \in {"time_fmt_iso", "string"} /\ TimeParse

SpecText == Init /\ [][TextNext]_vars

\* The last six characters of s, where time_fmt_iso writes the offset.
Tail6(s) == SubSeq(s, Len(s) - 5, Len(s))

\* C24: for an instant t of a year in 1 .. 9999 and an offset of whole
\* minutes with |offset_sec| < 24 h, offsets strictly between -1 h and 0
\* such as -30 minutes included, time_parse of the text that
\* time_fmt_iso(t, offset_sec) wrote is t; the text ends with an offset
\* that carries '-' exactly when offset_sec < 0, and with 'Z' exactly when
\* offset_sec = 0.
C24_IsoTextRoundTrip ==
    (fn = "time_parse" /\ zone # <<>> /\ x = NatW(Len(str))
        /\ time_get_year(u) \in 1..9999
        /\ zone[1] % 60 = 0 /\ zone[1] > -86400 /\ zone[1] < 86400) =>
        /\ time_equal(t, u)
        /\ zone[1] < 0 <=> (\E k \in 1..6 : Tail6(str)[k] = "-")
        /\ zone[1] = 0 <=> str[Len(str)] = "Z"

\* w is a sign, two digits, ':' and two digits.
WellFormedOffset(w) ==
    /\ Len(w) = 6
    /\ w[1] \in {"+", "-"}
    /\ IsDigit(w[2]) /\ IsDigit(w[3])
    /\ w[4] = ":"
    /\ IsDigit(w[5]) /\ IsDigit(w[6])

\* C30: time_parse returns the zero instant for a string of length 25 or
\* 35 whose last six characters are not a sign, two digits, ':' and two
\* digits, and for a string whose length is none of 8, 10, 19, 20, 25, 30
\* and 35.
C30_ParseRejectsMalformed ==
    fn = "time_parse" =>
        /\ (Len(str) \in {25, 35} /\ ~WellFormedOffset(Tail6(str)))
              => time_is_zero(t)
        /\ Len(str) \notin {8, 10, 19, 20, 25, 30, 35} => time_is_zero(t)

====
